---- MODULE Spec2Model ----
(***************************************************************************)
(* Cross-genre artist equivalence: the analogy resolver                    *)
(* (src/src/vector-utils.ts) and the similarity scorer                     *)
(* (src/unnamed/part_000).                                                 *)
(*                                                                         *)
(* Strings are sequences of one-character strings, so that toLowerCase and *)
(* trim are computed and not assumed.  Vectors are sequences of integers.  *)
(* Scores that the code computes as floating-point quotients are kept as   *)
(* exact rationals <<numerator, denominator>>.                             *)
(***************************************************************************)
EXTENDS Integers, Sequences, FiniteSets, TLC

VARIABLES
    pc,               \* position of the findEquivalentArtists call
    index,            \* the vector index: id -> stored vector or Null
    stored,           \* ids of the candidate vectors a query can return
    sourceArtist, sourceGenre, targetGenre, topK,   \* the call's arguments
    artistVector, avgSourceVector, avgTargetVector, \* vector-utils.ts:81, :86, :91
    equivalentVector, \* vector-utils.ts:96
    i,                \* the loop index of vector-utils.ts:100
    queries,          \* the nearest-neighbor queries issued so far, in order
    allMatches,       \* vector-utils.ts:98
    uniqueMatches,    \* vector-utils.ts:120, sorted in place at :128
    results,          \* vector-utils.ts:132, the returned list once pc = "done"
    error,            \* the Error thrown out of the call, or NoError
    scorePc,          \* position of the compareArtists call
    sourceFeatures, targetFeatures, vectorSimilarity,   \* its arguments
    themeSimilarity, musicalSimilarity, lyricalSimilarity, overallSimilarity,
                      \* part_000:33-48
    compared,         \* the names compareArtists is called with: sourceArtist,
                      \* sourceGenre, targetArtist, targetGenre
    sharedCharacteristics, differences,   \* part_000:50-70, as in the result
    response,         \* what ai.run answers at part_000:315
    userFriendlyExplanation,              \* part_000:72
    extractPc,        \* position of the extractArtistFeatures call
    extractResponse,  \* what ai.run answers at feature-extractor.ts:51
    features,         \* the record extractArtistFeatures returns
    batchPc,          \* position of the /api/find-equivalent handler
    body,             \* the request: sourceArtist, sourceGenre, targetGenre
    includeExplanations,  \* lib/utils.ts:537, with both bindings configured
    documents,        \* what loading artist_documents.json gives
    batchSourceFeatures,  \* sourceFeatures of lib/utils.ts:560
    callbacks,        \* the callbacks of results.map, lib/utils.ts:570
    httpResponse,     \* the body of the response
    requests,         \* the locals of the calls that run concurrently
    request,          \* the Request the worker's fetch receives
    appPasscode,      \* env.APP_PASSCODE
    gateResponse,     \* what fetch does with the request
    clientPc,         \* position of initApp / promptForPasscode
    sessionStorage,   \* the item app_passcode of the session storage
    attempts,         \* part_002:34
    passcode,         \* part_002:38, the passcode being validated
    validated,        \* the passcodes validated since the page was loaded
    page,             \* what the document shows
    messages,         \* the tool parts of the messages, part_001:21
    dataStream,       \* what was written to the stream, part_001:73
    invoked,          \* the calls of execution functions, part_001:60
    passes,           \* the processToolCalls calls made on the conversation
    embedRequest,     \* the body of a /api/embeddings/generate request
    allArtists,       \* lib/utils.ts:259
    embedResponse,    \* the body of its response
    processed         \* the indices whose embeddings the client has received

resolverVars == <<pc, index, stored, sourceArtist, sourceGenre, targetGenre, topK,
                  artistVector, avgSourceVector, avgTargetVector,
                  equivalentVector, i, queries, allMatches, uniqueMatches,
                  results, error>>

scorerVars == <<scorePc, sourceFeatures, targetFeatures, vectorSimilarity,
                themeSimilarity, musicalSimilarity, lyricalSimilarity,
                overallSimilarity, compared, sharedCharacteristics, differences,
                response, userFriendlyExplanation>>

extractVars == <<extractPc, extractResponse, features>>

batchVars == <<batchPc, body, includeExplanations, documents, batchSourceFeatures,
               callbacks, httpResponse>>

coreVars == <<resolverVars, scorerVars, extractVars, batchVars>>

gateVars == <<request, appPasscode, gateResponse>>

clientVars == <<clientPc, sessionStorage, attempts, passcode, validated, page>>

toolVars == <<messages, dataStream, invoked, passes>>

embedVars == <<embedRequest, allArtists, embedResponse, processed>>

edgeVars == <<requests, gateVars, clientVars, toolVars, embedVars>>

vars == <<coreVars, edgeVars>>

-----------------------------------------------------------------------------
(* Bounds of the model                                                     *)

MaxDims  == 2      \* longest vector stored in the index
MaxPool  == 3      \* most matches the three queries return together
MaxTopK  == 2      \* largest topK argument
MaxList  == 2      \* longest themes or instrumentation list of a feature record

(* Program constants                                                       *)

NumQueries == 3    \* for (let i = 0; i < 3; i++)
QueryTopK  == 50   \* topK: 50
NoiseAmplitude == 5 \* (Math.random() - 0.5) * 0.001 lies within 5e-4 of zero

-----------------------------------------------------------------------------
(* Strings                                                                 *)

Min(a, b) == IF a <= b THEN a ELSE b
Max(a, b) == IF a >= b THEN a ELSE b

\* A string is a sequence of pieces. A piece is one character or a literal
\* text of the code that starts and ends with a character that is not
\* whitespace, which no operation of the program looks into.

\* String.prototype.toLowerCase on the characters the model uses
LowerChar(c) ==
    CASE c = "R" -> "r"
      [] c = "P" -> "p"
      [] c = "A" -> "a"
      [] c = "B" -> "b"
      [] c = "C" -> "c"
      [] OTHER   -> c

ToLowerCase(s) == [j \in 1..Len(s) |-> LowerChar(s[j])]

IsSpace(c) == c = " "

RECURSIVE TrimStart(_)
TrimStart(s) ==
    IF s # <<>> /\ IsSpace(Head(s)) THEN TrimStart(Tail(s)) ELSE s

RECURSIVE TrimEnd(_)
TrimEnd(s) ==
    IF s # <<>> /\ IsSpace(s[Len(s)]) THEN TrimEnd(SubSeq(s, 1, Len(s) - 1)) ELSE s

\* String.prototype.trim
Trim(s) == TrimEnd(TrimStart(s))

\* .replace(/\s+/g, '_').replace(/\//g, '_'): every run of whitespace becomes
\* one underscore, then every slash becomes an underscore
RECURSIVE ReplaceSpaceRuns(_)
ReplaceSpaceRuns(s) ==
    IF s = <<>> THEN <<>>
    ELSE IF IsSpace(Head(s)) THEN <<"_">> \o ReplaceSpaceRuns(TrimStart(s))
    ELSE <<Head(s)>> \o ReplaceSpaceRuns(Tail(s))

ReplaceSlashes(s) == [j \in 1..Len(s) |-> IF s[j] = "/" THEN "_" ELSE s[j]]

-----------------------------------------------------------------------------
(* The vector index as the resolver sees it                                *)

Null == [present |-> FALSE]
Some(v) == [present |-> TRUE, val |-> v]

\* vector-utils.ts:12
ArtistId(artist, genre) ==
    ReplaceSlashes(ReplaceSpaceRuns(genre \o <<"_">> \o artist))

\* vector-utils.ts:36
CentroidId(genre) == <<"a", "v", "g", "_">> \o genre

RECURSIVE SeqsUpTo(_, _)
SeqsUpTo(S, n) ==
    IF n = 0 THEN {<<>>}
    ELSE LET shorter == SeqsUpTo(S, n - 1)
         IN  shorter \cup {Append(s, x) : s \in {t \in shorter : Len(t) = n - 1}, x \in S}

VectorsOver(S) == SeqsUpTo(S, MaxDims) \ {<<>>}

\* A lookup that answers a missing vector with the zero vector
GetVectorZeroForMissing(id, throws) ==
    IF throws \/ ~index[id].present THEN Some(<<0>>) ELSE index[id]

\* getArtistVector / getAverageGenreVector: getByIds([id]) answers with the
\* stored vector, with nothing, or throws; the last two both give null
GetVector(id, throws) ==
    IF throws \/ ~index[id].present THEN Null ELSE index[id]

NoError == <<>>

\* vector-utils.ts:83, :88, :93 and :63: the message of the Error thrown
ArtistNotFound(artist, genre) == <<"Artist", artist, "not found in genre", genre>>
SourceCentroidNotFound(genre) == <<"Average vector not found for source genre", genre>>
TargetCentroidNotFound(genre) == <<"Average vector not found for target genre", genre>>
DimensionMismatch == <<"Vector dimension mismatch">>

\* A guard that only rejects a target centroid shorter than the artist vector
DimsAgreeLoose(a, s, t) == Len(s) = Len(a) /\ Len(t) >= Len(a)

\* vectorArithmetic's guard, vector-utils.ts:61-64
DimsAgree(a, s, t) == Len(s) = Len(a) /\ Len(t) = Len(a)

\* The arithmetic with the two centroids exchanged
vectorArithmeticSwapped(a, s, t) == [j \in 1..Len(a) |-> a[j] - t[j] + s[j]]

\* vectorArithmetic's loop, vector-utils.ts:66-71
vectorArithmetic(a, s, t) == [j \in 1..Len(a) |-> a[j] - s[j] + t[j]]

-----------------------------------------------------------------------------
(* Nearest-neighbor queries and their matches                              *)

\* The metadata stored with each candidate vector.  A field the stored
\* metadata lacks is absent from the record (undefined in the code).
StoredMetadata(id) ==
    CASE id = "v1" -> [type |-> "artist", genre |-> <<"r">>, artist |-> <<"a">>]
      [] id = "v2" -> [type |-> "artist", genre |-> <<"R", " ">>, artist |-> <<"b">>]
      [] id = "v3" -> [type |-> "artist", genre |-> <<"p">>, artist |-> <<"c">>]
      [] id = "v4" -> [type |-> "genre_average", genre |-> <<"r">>, artist |-> <<"r">>]
      [] id = "v5" -> [type |-> "artist", genre |-> <<"r">>]
      [] id = "v6" -> [type |-> "artist", artist |-> <<"a">>]

CandidateIds == {"v1", "v2", "v3", "v4", "v5", "v6"}

\* Retrieval scores a query can attach to a match
Scores == {0, 1, 2}

Has(r, f) == f \in DOMAIN r

\* A JavaScript string used as a condition: defined and not empty
Truthy(r, f) == Has(r, f) /\ r[f] # <<>>

\* One element of queryResult.matches
Match(id, score) == [id |-> id, score |-> score, metadata |-> StoredMetadata(id)]

MatchesOf(ids) == {Match(id, sc) : id \in ids, sc \in Scores}

\* A query whose vector is perturbed whatever its rank
QueryOfPerturbed(anchor, k) ==
    [anchor |-> anchor, noise |-> NoiseAmplitude,
     topK |-> QueryTopK, returnMetadata |-> TRUE, returnValues |-> FALSE]

\* The argument of vectorize.query, vector-utils.ts:101-109.  The perturbed
\* vector of a later query lies within `noise` (in units of 1e-4) of the
\* anchor in every component.
QueryOf(anchor, k) ==
    [anchor |-> anchor, noise |-> IF k = 0 THEN 0 ELSE NoiseAmplitude,
     topK |-> QueryTopK, returnMetadata |-> TRUE, returnValues |-> FALSE]

\* match.score || 0
ScoreOrZero(m) == IF m.score = 0 THEN 0 ELSE m.score

\* vector-utils.ts:119-126: keep a match when its id is not yet in `seen`
RECURSIVE DedupFrom(_, _)
DedupFrom(ms, seen) ==
    IF ms = <<>> THEN <<>>
    ELSE IF Head(ms).id \notin seen
         THEN <<Head(ms)>> \o DedupFrom(Tail(ms), seen \cup {Head(ms).id})
         ELSE DedupFrom(Tail(ms), seen)

\* A merge in which a later occurrence with a higher score replaces the kept one
RECURSIVE DedupBestScore(_)
DedupBestScore(ms) ==
    IF ms = <<>> THEN <<>>
    ELSE LET rest == DedupBestScore(SubSeq(ms, 1, Len(ms) - 1))
             m    == ms[Len(ms)]
         IN  IF \E k \in DOMAIN rest : rest[k].id = m.id
             THEN [k \in DOMAIN rest |->
                      IF rest[k].id = m.id /\ m.score > rest[k].score THEN m ELSE rest[k]]
             ELSE Append(rest, m)

Dedup(ms) == DedupFrom(ms, {})

\* vector-utils.ts:128, the comparator of the sort
ComesBefore(a, b) == ScoreOrZero(b) - ScoreOrZero(a) < 0

\* Array.prototype.sort is stable: m goes behind every element that does not
\* have to come after it
RECURSIVE InsertSorted(_, _)
InsertSorted(m, sorted) ==
    IF sorted = <<>> THEN <<m>>
    ELSE IF ComesBefore(m, Head(sorted)) THEN <<m>> \o sorted
         ELSE <<Head(sorted)>> \o InsertSorted(m, Tail(sorted))

RECURSIVE SortByScore(_)
SortByScore(ms) ==
    IF ms = <<>> THEN <<>>
    ELSE InsertSorted(ms[Len(ms)], SortByScore(SubSeq(ms, 1, Len(ms) - 1)))

\* A filter that compares the group labels as they are
EligibleExact(m, target) ==
    /\ Has(m.metadata, "type") /\ m.metadata.type = "artist"
    /\ Has(m.metadata, "genre")
    /\ m.metadata.genre = target
    /\ Truthy(m.metadata, "artist")

\* A filter that does not look at the type of the vector
EligibleAnyType(m, target) ==
    /\ Has(m.metadata, "genre")
    /\ Trim(ToLowerCase(m.metadata.genre)) = Trim(ToLowerCase(target))
    /\ Truthy(m.metadata, "artist")

\* vector-utils.ts:146-153
Eligible(m, target) ==
    /\ Has(m.metadata, "type") /\ m.metadata.type = "artist"
    /\ Has(m.metadata, "genre")
    /\ Trim(ToLowerCase(m.metadata.genre)) = Trim(ToLowerCase(target))
    /\ Truthy(m.metadata, "artist")

\* vector-utils.ts:154-158
ResultOf(m, target) ==
    [artist |-> m.metadata.artist,
     genre  |-> IF Truthy(m.metadata, "genre") THEN m.metadata.genre ELSE target,
     score  |-> ScoreOrZero(m)]

\* vector-utils.ts:160: the test that ends the loop, made after a push
LoopEnds(res, k) == Len(res) >= k

\* vector-utils.ts:134-164
RECURSIVE Collect(_, _, _, _)
Collect(ms, target, k, res) ==
    IF ms = <<>> THEN res
    ELSE IF Eligible(Head(ms), target)
         THEN LET pushed == Append(res, ResultOf(Head(ms), target))
              IN  IF LoopEnds(pushed, k) THEN pushed
                  ELSE Collect(Tail(ms), target, k, pushed)
         ELSE Collect(Tail(ms), target, k, res)

-----------------------------------------------------------------------------
(* findEquivalentArtists, one action per await                             *)

Fail(e) ==
    /\ pc' = "failed"
    /\ error' = e

\* vector-utils.ts:81-84
FetchArtist ==
    /\ pc = "fetchArtist"
    /\ \E throws \in BOOLEAN :
        LET v == GetVector(ArtistId(sourceArtist, sourceGenre), throws)
        IN  /\ artistVector' = v
            /\ IF ~v.present
               THEN Fail(ArtistNotFound(sourceArtist, sourceGenre))
               ELSE pc' = "fetchSource" /\ error' = error
    /\ UNCHANGED <<index, stored, sourceArtist, sourceGenre, targetGenre, topK,
                   avgSourceVector, avgTargetVector, equivalentVector, i,
                   queries, allMatches, uniqueMatches, results>>

\* vector-utils.ts:86-89
FetchSourceCentroid ==
    /\ pc = "fetchSource"
    /\ \E throws \in BOOLEAN :
        LET v == GetVector(CentroidId(sourceGenre), throws)
        IN  /\ avgSourceVector' = v
            /\ IF ~v.present
               THEN Fail(SourceCentroidNotFound(sourceGenre))
               ELSE pc' = "fetchTarget" /\ error' = error
    /\ UNCHANGED <<index, stored, sourceArtist, sourceGenre, targetGenre, topK,
                   artistVector, avgTargetVector, equivalentVector, i,
                   queries, allMatches, uniqueMatches, results>>

\* vector-utils.ts:91-109: the third fetch, the arithmetic and the first query
FetchTargetCentroid ==
    /\ pc = "fetchTarget"
    /\ \E throws \in BOOLEAN :
        LET v == GetVector(CentroidId(targetGenre), throws)
        IN  /\ avgTargetVector' = v
            /\ IF ~v.present
               THEN /\ Fail(TargetCentroidNotFound(targetGenre))
                    /\ UNCHANGED <<equivalentVector, queries>>
               ELSE IF ~DimsAgree(artistVector.val, avgSourceVector.val, v.val)
               THEN /\ Fail(DimensionMismatch)
                    /\ UNCHANGED <<equivalentVector, queries>>
               ELSE LET eq == vectorArithmetic(artistVector.val, avgSourceVector.val, v.val)
                    IN  /\ equivalentVector' = eq
                        /\ queries' = <<QueryOf(eq, 0)>>
                        /\ pc' = "query"
                        /\ error' = error
    /\ UNCHANGED <<index, stored, sourceArtist, sourceGenre, targetGenre, topK,
                   artistVector, avgSourceVector, i, allMatches, uniqueMatches, results>>

\* vector-utils.ts:105: the awaited query rejects and the call fails with it
QueryFails ==
    /\ pc = "query"
    /\ Fail(<<"query failed">>)
    /\ UNCHANGED <<index, stored, sourceArtist, sourceGenre, targetGenre, topK,
                   artistVector, avgSourceVector, avgTargetVector, equivalentVector,
                   i, queries, allMatches, uniqueMatches, results>>

\* The lists of matches the query in flight can answer with
Answers ==
    SeqsUpTo(MatchesOf(stored), Min(QueryTopK, MaxPool - Len(allMatches)))

\* vector-utils.ts:105-117: a query answers and is not the last one
QueryAnswers ==
    /\ pc = "query"
    /\ i + 1 < NumQueries
    /\ \E ms \in Answers :
        allMatches' = allMatches \o ms
    /\ i' = i + 1
    /\ queries' = Append(queries, QueryOf(equivalentVector, i + 1))
    /\ UNCHANGED <<pc, index, stored, sourceArtist, sourceGenre, targetGenre, topK,
                   artistVector, avgSourceVector, avgTargetVector, equivalentVector,
                   uniqueMatches, results, error>>

\* vector-utils.ts:105-176: the last query answers; deduplicate, sort, filter
LastQueryAnswers ==
    /\ pc = "query"
    /\ i + 1 = NumQueries
    /\ \E ms \in Answers :
        LET unique == SortByScore(Dedup(allMatches \o ms))
        IN  /\ allMatches' = allMatches \o ms
            /\ uniqueMatches' = unique
            /\ results' = Collect(unique, targetGenre, topK, <<>>)
    /\ i' = i + 1
    /\ pc' = "done"
    /\ UNCHANGED <<index, stored, sourceArtist, sourceGenre, targetGenre, topK,
                   artistVector, avgSourceVector, avgTargetVector, equivalentVector,
                   queries, error>>

-----------------------------------------------------------------------------
(* Rational numbers: <<n, d>> with d > 0, in lowest terms                  *)

RECURSIVE GCD(_, _)
GCD(a, b) == IF b = 0 THEN a ELSE GCD(b, a % b)

Abs(n) == IF n < 0 THEN 0 - n ELSE n

Rat(n, d) ==
    LET g == GCD(Abs(n), d)
    IN  <<n \div g, d \div g>>

RatOfInt(n) == <<n, 1>>
RatAdd(x, y) == Rat(x[1] * y[2] + y[1] * x[2], x[2] * y[2])
RatMul(x, y) == Rat(x[1] * y[1], x[2] * y[2])
RatDiv(x, k) == Rat(x[1], x[2] * k)
RatLeq(x, y) == x[1] * y[2] <= y[1] * x[2]

-----------------------------------------------------------------------------
(* The similarity scorer, part_000                                         *)

\* new Set(arr.map(f)) for the two normalizations the scorer uses
LowerTrimSet(arr) == {Trim(ToLowerCase(arr[k])) : k \in DOMAIN arr}
LowerSet(arr) == {ToLowerCase(arr[k]) : k \in DOMAIN arr}

\* A similarity that divides the overlap by the size of the first set
calculateThemeSimilarityByFirst(themes1, themes2) ==
    IF Len(themes1) = 0 /\ Len(themes2) = 0 THEN RatOfInt(1)
    ELSE IF Len(themes1) = 0 \/ Len(themes2) = 0 THEN RatOfInt(0)
    ELSE LET set1 == LowerTrimSet(themes1)
             set2 == LowerTrimSet(themes2)
         IN  Rat(Cardinality(set1 \cap set2), Cardinality(set1))

\* part_000:109-120
calculateThemeSimilarity(themes1, themes2) ==
    IF Len(themes1) = 0 /\ Len(themes2) = 0 THEN RatOfInt(1)
    ELSE IF Len(themes1) = 0 \/ Len(themes2) = 0 THEN RatOfInt(0)
    ELSE LET set1 == LowerTrimSet(themes1)
             set2 == LowerTrimSet(themes2)
         IN  Rat(Cardinality(set1 \cap set2), Cardinality(set1 \cup set2))

ScalarAttributes == <<"tempo", "key", "mood", "energy">>

\* A comparison that also counts an attribute only one record has
compareCountingOneSided(acc, music1, music2, f) ==
    IF Truthy(music1, f) \/ Truthy(music2, f)
    THEN <<IF Truthy(music1, f) /\ Truthy(music2, f)
              /\ ToLowerCase(music1[f]) = ToLowerCase(music2[f])
           THEN RatAdd(acc[1], RatOfInt(1)) ELSE acc[1],
           acc[2] + 1>>
    ELSE acc

\* part_000:129-136, the closure `compare`: acc is <<matches, total>>
compare(acc, music1, music2, f) ==
    IF Truthy(music1, f) /\ Truthy(music2, f)
    THEN <<IF ToLowerCase(music1[f]) = ToLowerCase(music2[f])
           THEN RatAdd(acc[1], RatOfInt(1)) ELSE acc[1],
           acc[2] + 1>>
    ELSE acc

\* part_000:138-141
RECURSIVE CompareAll(_, _, _, _)
CompareAll(acc, music1, music2, fields) ==
    IF fields = <<>> THEN acc
    ELSE CompareAll(compare(acc, music1, music2, Head(fields)), music1, music2, Tail(fields))

\* An instrumentation unit that is also counted when both lists are empty,
\* as a full match
CompareInstrumentationCountingEmpty(acc, music1, music2) ==
    IF Has(music1, "instrumentation") /\ Has(music2, "instrumentation")
    THEN LET inst1 == LowerSet(music1.instrumentation)
             inst2 == LowerSet(music2.instrumentation)
         IN  IF Cardinality(inst1 \cup inst2) > 0
             THEN <<RatAdd(acc[1], Rat(Cardinality(inst1 \cap inst2),
                                       Cardinality(inst1 \cup inst2))),
                    acc[2] + 1>>
             ELSE <<RatAdd(acc[1], RatOfInt(1)), acc[2] + 1>>
    ELSE acc

\* part_000:143-152
CompareInstrumentation(acc, music1, music2) ==
    IF Has(music1, "instrumentation") /\ Has(music2, "instrumentation")
    THEN LET inst1 == LowerSet(music1.instrumentation)
             inst2 == LowerSet(music2.instrumentation)
         IN  IF Cardinality(inst1 \cup inst2) > 0
             THEN <<RatAdd(acc[1], Rat(Cardinality(inst1 \cap inst2),
                                       Cardinality(inst1 \cup inst2))),
                    acc[2] + 1>>
             ELSE acc
    ELSE acc

\* A score that is the sum of the matches, not divided by the units
QuotientOfMatches(acc) == IF acc[2] > 0 THEN acc[1] ELSE Rat(1, 2)

\* part_000:154 and :189
Quotient(acc) == IF acc[2] > 0 THEN RatDiv(acc[1], acc[2]) ELSE Rat(1, 2)

\* part_000:122-155
calculateMusicalSimilarity(music1, music2) ==
    Quotient(CompareInstrumentation(
                 CompareAll(<<RatOfInt(0), 0>>, music1, music2, ScalarAttributes),
                 music1, music2))

\* String.prototype.split(/\s+/): the pieces between the runs of whitespace,
\* an empty piece included where the string starts or ends with one
RECURSIVE SplitFrom(_, _)
SplitFrom(s, word) ==
    IF s = <<>> THEN <<word>>
    ELSE IF IsSpace(Head(s)) THEN <<word>> \o SplitFrom(TrimStart(s), <<>>)
    ELSE SplitFrom(Tail(s), Append(word, Head(s)))

SplitWhitespace(s) == SplitFrom(s, <<>>)

SetOf(arr) == {arr[k] : k \in DOMAIN arr}

\* A word overlap divided by the smaller of the two word-set sizes
ToneOverlapBySmaller(tone1, tone2) ==
    LET words1 == SetOf(SplitWhitespace(ToLowerCase(tone1)))
        words2 == SetOf(SplitWhitespace(ToLowerCase(tone2)))
        commonWords == {w \in words1 : w \in words2 /\ Len(w) > 3}
    IN  IF Cardinality(words1) > 0 /\ Cardinality(words2) > 0
        THEN Rat(Cardinality(commonWords), Min(Cardinality(words1), Cardinality(words2)))
        ELSE RatOfInt(0)

\* part_000:171-181
ToneOverlap(tone1, tone2) ==
    LET words1 == SetOf(SplitWhitespace(ToLowerCase(tone1)))
        words2 == SetOf(SplitWhitespace(ToLowerCase(tone2)))
        commonWords == {w \in words1 : w \in words2 /\ Len(w) > 3}
    IN  IF Cardinality(words1) > 0 /\ Cardinality(words2) > 0
        THEN Rat(Cardinality(commonWords), Max(Cardinality(words1), Cardinality(words2)))
        ELSE RatOfInt(0)

\* part_000:157-190
calculateLyricalSimilarity(style1, style2) ==
    LET c == IF Has(style1, "complexity") /\ Has(style2, "complexity")
                /\ style1.complexity # "" /\ style2.complexity # ""
             THEN <<IF style1.complexity = style2.complexity
                    THEN RatOfInt(1) ELSE RatOfInt(0), 1>>
             ELSE <<RatOfInt(0), 0>>
        e == IF Truthy(style1, "emotionalTone") /\ Truthy(style2, "emotionalTone")
             THEN <<RatAdd(c[1], ToneOverlap(style1.emotionalTone, style2.emotionalTone)),
                    c[2] + 1>>
             ELSE c
        t == IF Has(style1, "commonTopics") /\ Has(style2, "commonTopics")
             THEN <<RatAdd(e[1], calculateThemeSimilarity(style1.commonTopics,
                                                          style2.commonTopics)),
                    e[2] + 1>>
             ELSE e
    IN  Quotient(t)

\* An overall score that weighs the four scores equally
OverallEqualWeights(v, theme, musical, lyrical) ==
    RatAdd(RatAdd(RatMul(v, Rat(1, 4)), RatMul(theme, Rat(1, 4))),
           RatAdd(RatMul(musical, Rat(1, 4)), RatMul(lyrical, Rat(1, 4))))

\* part_000:43-48
Overall(v, theme, musical, lyrical) ==
    RatAdd(RatAdd(RatMul(v, Rat(5, 10)), RatMul(theme, Rat(2, 10))),
           RatAdd(RatMul(musical, Rat(15, 100)), RatMul(lyrical, Rat(15, 100))))

NotScored == <<>>

\* Array.prototype.join
RECURSIVE Join(_, _)
Join(arr, sep) ==
    IF arr = <<>> THEN <<>>
    ELSE IF Len(arr) = 1 THEN arr[1]
    ELSE arr[1] \o sep \o Join(Tail(arr), sep)

CommaSpace == <<",", " ">>

\* An intersection rendered in its normalized form, not in the first list's
findIntersectionNormalized(arr1, arr2) ==
    LET kept == SelectSeq(arr1, LAMBDA s : Trim(ToLowerCase(s)) \in LowerTrimSet(arr2))
    IN  [k \in DOMAIN kept |-> Trim(ToLowerCase(kept[k]))]

\* part_000:192-198
findIntersection(arr1, arr2) ==
    LET set1 == LowerTrimSet(arr1)
        set2 == LowerTrimSet(arr2)
        intersection == {x \in set1 : x \in set2}
    IN  SelectSeq(arr1, LAMBDA s : Trim(ToLowerCase(s)) \in intersection)

\* part_000:200-203
findDifferences(arr1, arr2) ==
    LET set2 == LowerTrimSet(arr2)
    IN  SelectSeq(arr1, LAMBDA s : Trim(ToLowerCase(s)) \notin set2)

\* An equality test that distinguishes the letter cases
SameScalarExact(music1, music2, f) ==
    /\ Truthy(music1, f) /\ Truthy(music2, f)
    /\ music1[f] = music2[f]

\* m1.f && m2.f && m1.f.toLowerCase() === m2.f.toLowerCase(), and with !==
SameScalar(music1, music2, f) ==
    /\ Truthy(music1, f) /\ Truthy(music2, f)
    /\ ToLowerCase(music1[f]) = ToLowerCase(music2[f])
OtherScalar(music1, music2, f) ==
    /\ Truthy(music1, f) /\ Truthy(music2, f)
    /\ ToLowerCase(music1[f]) # ToLowerCase(music2[f])

\* part_000:205-230
findSharedMusicalCharacteristics(music1, music2) ==
    (IF SameScalar(music1, music2, "tempo")
     THEN <<<<"Tempo:", " ">> \o music1.tempo>> ELSE <<>>)
    \o (IF SameScalar(music1, music2, "energy")
        THEN <<<<"Energy:", " ">> \o music1.energy>> ELSE <<>>)
    \o (IF SameScalar(music1, music2, "mood")
        THEN <<<<"Mood:", " ">> \o music1.mood>> ELSE <<>>)
    \o (IF Has(music1, "instrumentation") /\ Has(music2, "instrumentation")
        THEN LET sharedInstruments ==
                     findIntersection(music1.instrumentation, music2.instrumentation)
             IN  IF Len(sharedInstruments) > 0
                 THEN <<<<"Instruments:", " ">> \o Join(sharedInstruments, CommaSpace)>>
                 ELSE <<>>
        ELSE <<>>)

\* part_000:232-247
findDifferentMusicalCharacteristics(music1, music2) ==
    (IF OtherScalar(music1, music2, "tempo")
     THEN <<music1.tempo \o <<" ", "vs", " ">> \o music2.tempo \o <<" ", "tempo">>>>
     ELSE <<>>)
    \o (IF OtherScalar(music1, music2, "energy")
        THEN <<music1.energy \o <<" ", "vs", " ">> \o music2.energy \o <<" ", "energy">>>>
        ELSE <<>>)

\* style1.complexity === style2.complexity, a missing field being undefined
SameComplexity(style1, style2) ==
    IF Has(style1, "complexity") /\ Has(style2, "complexity")
    THEN style1.complexity = style2.complexity
    ELSE ~Has(style1, "complexity") /\ ~Has(style2, "complexity")

\* `${style.complexity}`
ComplexityText(style) ==
    IF ~Has(style, "complexity") THEN <<"undefined">>
    ELSE IF style.complexity = "" THEN <<>>
    ELSE <<style.complexity>>

\* style.commonTopics || []
TopicsOrEmpty(style) == IF Has(style, "commonTopics") THEN style.commonTopics ELSE <<>>

\* part_000:249-265
findSharedLyricalCharacteristics(style1, style2) ==
    (IF SameComplexity(style1, style2)
     THEN <<ComplexityText(style1) \o <<" ", "lyrical", " ", "complexity">>>>
     ELSE <<>>)
    \o (LET sharedTopics == findIntersection(TopicsOrEmpty(style1), TopicsOrEmpty(style2))
        IN  IF Len(sharedTopics) > 0
            THEN <<<<"Topics:", " ">> \o Join(sharedTopics, CommaSpace)>>
            ELSE <<>>)

\* part_000:267-276
findDifferentLyricalCharacteristics(style1, style2) ==
    IF ~SameComplexity(style1, style2)
    THEN <<ComplexityText(style1) \o <<" ", "vs", " ">> \o ComplexityText(style2)
             \o <<" ", "complexity">>>>
    ELSE <<>>

\* part_000:33-70 reads themes.length (:110), the fields of
\* musicalCharacteristics (:138) and of lyricalStyle (:164) of both records,
\* and calls `map` on the topic lists (:194): a record without themes,
\* without musicalCharacteristics or without lyricalStyle, or with a
\* commonTopics that is a text, not a list (held under the name
\* commonTopicsText), makes compareArtists throw a TypeError
Malformed(f) ==
    IF {"themes", "musicalCharacteristics", "lyricalStyle"} \subseteq DOMAIN f
    THEN Has(f.lyricalStyle, "commonTopicsText")
    ELSE TRUE

CompareThrows(features1, features2) ==
    IF Malformed(features1) THEN TRUE ELSE Malformed(features2)

\* part_000:33-70: compareArtists computes the four scores and the six
\* lists, up to its call of generateUserFriendlyExplanation
Score ==
    /\ scorePc = "start"
    /\ ~CompareThrows(sourceFeatures, targetFeatures)
    /\ sharedCharacteristics' =
          [themes |-> findIntersection(sourceFeatures.themes, targetFeatures.themes),
           musical |-> findSharedMusicalCharacteristics(
                           sourceFeatures.musicalCharacteristics,
                           targetFeatures.musicalCharacteristics),
           lyrical |-> findSharedLyricalCharacteristics(sourceFeatures.lyricalStyle,
                                                        targetFeatures.lyricalStyle)]
    /\ differences' =
          [themes |-> findDifferences(sourceFeatures.themes, targetFeatures.themes),
           musical |-> findDifferentMusicalCharacteristics(
                           sourceFeatures.musicalCharacteristics,
                           targetFeatures.musicalCharacteristics),
           lyrical |-> findDifferentLyricalCharacteristics(sourceFeatures.lyricalStyle,
                                                           targetFeatures.lyricalStyle)]
    /\ themeSimilarity' = calculateThemeSimilarity(sourceFeatures.themes, targetFeatures.themes)
    /\ musicalSimilarity' = calculateMusicalSimilarity(sourceFeatures.musicalCharacteristics,
                                                       targetFeatures.musicalCharacteristics)
    /\ lyricalSimilarity' = calculateLyricalSimilarity(sourceFeatures.lyricalStyle,
                                                       targetFeatures.lyricalStyle)
    /\ overallSimilarity' = Overall(vectorSimilarity, themeSimilarity', musicalSimilarity',
                                    lyricalSimilarity')
    /\ scorePc' = "scored"
    /\ UNCHANGED <<sourceFeatures, targetFeatures, vectorSimilarity, compared, response,
                   userFriendlyExplanation>>

\* part_000:33-70 on records that make it throw: the promise of
\* compareArtists is rejected
ScoreThrows ==
    /\ scorePc = "start"
    /\ CompareThrows(sourceFeatures, targetFeatures)
    /\ scorePc' = "threw"
    /\ UNCHANGED <<sourceFeatures, targetFeatures, vectorSimilarity, themeSimilarity,
                   musicalSimilarity, lyricalSimilarity, overallSimilarity, compared,
                   sharedCharacteristics, differences, response, userFriendlyExplanation>>

\* What ai.run can answer: an exception, null, a string, an object with a
\* `response` that is a string or a number, an object with `choices` whose
\* first message has a content or none, and an object with neither
Throws == [kind |-> "throws"]
NullAnswer == [kind |-> "null"]
StringAnswer(s) == [kind |-> "string", text |-> s]
ResponseAnswer(s) == [kind |-> "response", text |-> s]
NumberAnswer == [kind |-> "number"]
ChoicesAnswer(s) == [kind |-> "choices", text |-> s]
NoContentAnswer == [kind |-> "nocontent"]
EmptyObjectAnswer == [kind |-> "object"]

\* part_000:324-331: the text taken from the answer
ExplanationOf(r) ==
    IF r.kind = "response" /\ r.text # <<>> THEN r.text
    ELSE IF r.kind = "string" THEN r.text
    ELSE IF r.kind = "choices" THEN r.text
    ELSE <<>>

\* The statements of the try block that throw: the call itself, the read of
\* null.response, and the call of trim on a number
TryThrows(r) == r.kind \in {"throws", "null", "number"}

GenericExplanation ==
    <<"These artists share similar musical and lyrical characteristics that make them equivalent across genres.">>

\* A templated text that names every shared theme
TemplatedExplanationOfAll(names, similarities) ==
    LET themesPart ==
            IF Len(similarities.themes) > 0
            THEN <<<<"both explore themes like", " ">>
                     \o Join(similarities.themes, CommaSpace)>>
            ELSE <<>>
        musicalPart ==
            IF Len(similarities.musical) > 0
            THEN <<<<"share", " ">> \o similarities.musical[1]>>
            ELSE <<>>
        sharedParts == themesPart \o musicalPart
    IN  IF Len(sharedParts) > 0
        THEN names.sourceArtist \o <<" ", "and", " ">> \o names.targetArtist
               \o <<" ", "are equivalent because they", " ">>
               \o Join(sharedParts, <<" ", "and", " ">>) \o <<".">>
        ELSE names.sourceArtist \o <<" ", "and", " ">> \o names.targetArtist
               \o <<" ", "share similar artistic approaches that make them equivalent across the", " ">>
               \o names.sourceGenre \o <<" ", "and", " ">> \o names.targetGenre
               \o <<" ", "genres.">>

\* part_000:334-349, the catch block
TemplatedExplanation(names, similarities) ==
    LET themesPart ==
            IF Len(similarities.themes) > 0
            THEN <<<<"both explore themes like", " ">>
                     \o Join(SubSeq(similarities.themes, 1,
                                    Min(3, Len(similarities.themes))), CommaSpace)>>
            ELSE <<>>
        musicalPart ==
            IF Len(similarities.musical) > 0
            THEN <<<<"share", " ">> \o similarities.musical[1]>>
            ELSE <<>>
        sharedParts == themesPart \o musicalPart
    IN  IF Len(sharedParts) > 0
        THEN names.sourceArtist \o <<" ", "and", " ">> \o names.targetArtist
               \o <<" ", "are equivalent because they", " ">>
               \o Join(sharedParts, <<" ", "and", " ">>) \o <<".">>
        ELSE names.sourceArtist \o <<" ", "and", " ">> \o names.targetArtist
               \o <<" ", "share similar artistic approaches that make them equivalent across the", " ">>
               \o names.sourceGenre \o <<" ", "and", " ">> \o names.targetGenre
               \o <<" ", "genres.">>

\* An explanation that is the trimmed answer even when that is empty
generateUserFriendlyExplanationAsAnswered(r, names, similarities) ==
    IF TryThrows(r) THEN TemplatedExplanation(names, similarities)
    ELSE Trim(ExplanationOf(r))

\* part_000:278-350
generateUserFriendlyExplanation(r, names, similarities) ==
    IF TryThrows(r) THEN TemplatedExplanation(names, similarities)
    ELSE IF Trim(ExplanationOf(r)) # <<>> THEN Trim(ExplanationOf(r))
    ELSE GenericExplanation

\* part_000:72-107: ai.run has answered and compareArtists returns
Explain ==
    /\ scorePc = "scored"
    /\ userFriendlyExplanation' =
          generateUserFriendlyExplanation(response, compared, sharedCharacteristics)
    /\ scorePc' = "done"
    /\ UNCHANGED <<sourceFeatures, targetFeatures, vectorSimilarity, themeSimilarity,
                   musicalSimilarity, lyricalSimilarity, overallSimilarity, compared,
                   sharedCharacteristics, differences, response>>


-----------------------------------------------------------------------------
(* The feature extractor, feature-extractor.ts                             *)

\* feature-extractor.ts:104-109 and :118-123
DefaultStyle ==
    [complexity |-> "moderate",
     emotionalTone |-> <<"n", "e", "u", "t", "r", "a", "l">>,
     narrativeStyle |-> <<"d", "e", "s", "c", "r", "i", "p", "t", "i", "v", "e">>,
     commonTopics |-> <<>>]

\* feature-extractor.ts:115-124 and :130-140
DefaultFeatures ==
    [themes |-> <<>>, musicalCharacteristics |-> <<>>, lyricalStyle |-> DefaultStyle]

\* The values JSON.parse yields: an array, an object, a primitive that is
\* truthy (a number, a string) and one that is not (null, 0, "")
JArray(v) == [t |-> "array", v |-> v]
JObject(v) == [t |-> "object", v |-> v]
JPrimitive == [t |-> "primitive"]
JFalsy == [t |-> "falsy"]

\* A field of a returned record that holds a primitive
PrimitiveValue == [primitive |-> TRUE]

\* A lyricalStyle as the prompt asks for it
FullStyle ==
    [complexity |-> "simple", emotionalTone |-> <<"s", "a", "d">>,
     narrativeStyle |-> <<"d">>, commonTopics |-> <<<<"a">>>>]

\* The texts of the answers are made of these pieces: the two code fences,
\* the space, a piece of prose, and pieces that each stand for one JSON text
JsonFence == "<fence>json"
Fence == "<fence>"
ObjectBodies ==
    {"{full}", "{bare}", "{mistyped}", "{nostyle}", "{fixable}", "{broken}", "{hard}",
     "{badtopics}"}
Bodies == ObjectBodies \cup {"null", "7", "[]"}

\* JSON.parse of a text that is one piece: the value, or Null where it throws
ParseTable(piece) ==
    CASE piece = "{full}" ->
            Some(JObject([themes |-> JArray(<<<<"a">>, <<"b">>>>),
                          musicalCharacteristics |-> JObject([tempo |-> <<"a">>]),
                          lyricalStyle |-> JObject(FullStyle)]))
      [] piece = "{bare}" -> Some(JObject(<<>>))
      [] piece = "{mistyped}" ->
            Some(JObject([themes |-> JPrimitive, musicalCharacteristics |-> JPrimitive,
                          lyricalStyle |-> JPrimitive]))
      [] piece = "{nostyle}" ->
            Some(JObject([themes |-> JArray(<<<<"a">>>>),
                          musicalCharacteristics |-> JFalsy, lyricalStyle |-> JFalsy]))
      [] piece = "{badtopics}" ->
            Some(JObject([themes |-> JArray(<<<<"a">>>>),
                          lyricalStyle |-> JObject([complexity |-> "simple",
                                                    commonTopicsText |-> <<"a">>])]))
      [] piece = "null" -> Some(JFalsy)
      [] piece = "7" -> Some(JPrimitive)
      [] piece = "[]" -> Some(JArray(<<>>))
      [] OTHER -> Null

\* JSON.parse of the same text once its trailing commas are removed and its
\* bare keys quoted, feature-extractor.ts:90-92
FixedParseTable(piece) ==
    CASE piece = "{fixable}" ->
            Some(JObject([themes |-> JArray(<<<<"b">>>>),
                          lyricalStyle |-> JObject([complexity |-> "complex"])]))
      [] OTHER -> ParseTable(piece)

\* What the patterns of extractFeaturesFromText capture in a piece
FoundTable(piece) ==
    CASE piece = "{broken}" ->
            [themes |-> <<<<"a">>, <<>>, <<"b">>>>, tempo |-> <<"a">>,
             complexity |-> "Simple", emotionalTone |-> <<"s", "a", "d">>]
      [] piece = "{hard}" -> [complexity |-> "hard", mood |-> <<"b">>]
      [] piece = "{fixable}" -> [themes |-> <<<<"b">>>>]
      [] OTHER -> <<>>

\* String.prototype.toLowerCase on the complexity words
LowerWord(w) == IF w = "Simple" THEN "simple" ELSE w

\* feature-extractor.ts:60-67: the text taken from the answer
ResponseTextOf(r) ==
    IF r.kind = "response" /\ r.text # <<>> THEN r.text
    ELSE IF r.kind = "string" THEN r.text
    ELSE IF r.kind = "choices" THEN r.text
    ELSE <<>>

\* The removal of a closing fence and of the whitespace before it
StripFenceEnd(s) ==
    IF s # <<>> /\ s[Len(s)] = Fence THEN TrimEnd(SubSeq(s, 1, Len(s) - 1)) ELSE s

\* feature-extractor.ts:69-74
StripFences(s) ==
    IF s # <<>> /\ s[1] \in {JsonFence, Fence} THEN StripFenceEnd(TrimStart(Tail(s)))
    ELSE s

\* feature-extractor.ts:76-82: the text itself when it starts with a brace,
\* and otherwise what lies from its first to its last brace, if any
JsonTextOf(s) ==
    LET braces == {k \in DOMAIN s : s[k] \in ObjectBodies}
    IN  IF Trim(s) # <<>> /\ Trim(s)[1] \in ObjectBodies THEN s
        ELSE IF braces # {}
             THEN SubSeq(s, CHOOSE k \in braces : \A u \in braces : k <= u,
                            CHOOSE k \in braces : \A u \in braces : k >= u)
        ELSE s

\* JSON.parse accepts one JSON text with whitespace around it: the piece
\* that is the whole text but for that whitespace, if there is one
OnePiece(s) == IF Len(Trim(s)) = 1 THEN Some(Trim(s)[1]) ELSE Null

\* The first capture of a field in the text, if any
Captured(s, f) ==
    LET at == {k \in DOMAIN s : f \in DOMAIN FoundTable(s[k])}
    IN  IF at = {} THEN Null
        ELSE Some(FoundTable(s[CHOOSE k \in at : \A u \in at : k <= u])[f])

\* feature-extractor.ts:129-194
extractFeaturesFromText(s) ==
    LET themes == Captured(s, "themes")
        complexity == Captured(s, "complexity")
        tone == Captured(s, "emotionalTone")
        scalars == {f \in {"tempo", "mood", "energy"} : Captured(s, f).present}
    IN  [themes |-> IF themes.present
                    THEN SelectSeq(themes.val, LAMBDA t : Len(t) > 0)
                    ELSE <<>>,
         musicalCharacteristics |-> [f \in scalars |-> Captured(s, f).val],
         lyricalStyle |->
             [complexity |-> IF complexity.present
                                /\ LowerWord(complexity.val) \in {"simple", "moderate", "complex"}
                             THEN LowerWord(complexity.val)
                             ELSE DefaultStyle.complexity,
              emotionalTone |-> IF tone.present THEN tone.val
                                ELSE DefaultStyle.emotionalTone,
              narrativeStyle |-> DefaultStyle.narrativeStyle,
              commonTopics |-> DefaultStyle.commonTopics]]

\* The value of a field of the parsed object as the record keeps it
FieldValue(v) == IF v.t \in {"array", "object"} THEN v.v ELSE PrimitiveValue

\* feature-extractor.ts:97-111, on the fields of the parsed object
Normalize(o) ==
    [themes |-> IF Has(o, "themes") /\ o.themes.t = "array" THEN o.themes.v ELSE <<>>,
     musicalCharacteristics |->
         IF Has(o, "musicalCharacteristics") /\ o.musicalCharacteristics.t # "falsy"
         THEN FieldValue(o.musicalCharacteristics) ELSE <<>>,
     lyricalStyle |->
         IF Has(o, "lyricalStyle") /\ o.lyricalStyle.t # "falsy"
         THEN FieldValue(o.lyricalStyle) ELSE DefaultStyle]

\* What a block of code ends with: an error thrown, or a value
Thrown == [threw |-> TRUE]
Returned(v) == [threw |-> FALSE, val |-> v]

\* feature-extractor.ts:50-113, the try block. A parsed value that is not an
\* object makes the reads or the assignments of :97-103 throw
TryBlock(r) ==
    IF TryThrows(r) THEN Thrown
    ELSE LET responseText == StripFences(Trim(ResponseTextOf(r)))
             jsonText == JsonTextOf(responseText)
             parsed == IF OnePiece(jsonText).present
                       THEN ParseTable(OnePiece(jsonText).val) ELSE Null
             fixed == IF OnePiece(jsonText).present
                      THEN FixedParseTable(OnePiece(jsonText).val) ELSE Null
             fromText == extractFeaturesFromText(responseText)
         IN  IF parsed.present
             THEN IF parsed.val.t = "object" THEN Returned(Normalize(parsed.val.v))
                  ELSE IF parsed.val.t = "array" THEN Returned(Normalize(<<>>))
                  ELSE Thrown
             ELSE IF fixed.present
             THEN IF fixed.val.t = "object" THEN Returned(Normalize(fixed.val.v))
                  ELSE IF fixed.val.t = "array" THEN Returned(Normalize(<<>>))
                  ELSE Thrown
             ELSE Returned(Normalize([themes |-> JArray(fromText.themes),
                                      musicalCharacteristics |->
                                          JObject(fromText.musicalCharacteristics),
                                      lyricalStyle |-> JObject(fromText.lyricalStyle)]))

\* An extraction without the catch block
extractArtistFeaturesUncaught(r) == TryBlock(r)

\* feature-extractor.ts:50-127: the try block and its catch block
extractArtistFeatures(r) ==
    IF TryBlock(r).threw THEN Returned(DefaultFeatures) ELSE TryBlock(r)

\* feature-extractor.ts:18-127: ai.run has settled and the call ends, with
\* the record it returns or with the error it lets through
Extract ==
    /\ extractPc = "start"
    /\ LET outcome == extractArtistFeatures(extractResponse)
       IN  IF outcome.threw
           THEN extractPc' = "failed" /\ features' = <<>>
           ELSE extractPc' = "done" /\ features' = outcome.val
    /\ UNCHANGED extractResponse

-----------------------------------------------------------------------------
(* The /api/find-equivalent handler, lib/utils.ts:511-671                  *)

\* The topK the handler passes to findEquivalentArtists, lib/utils.ts:532
BatchTopK == 3

\* part_000:24-107: the ComparisonResult of a call whose ai.run answers r
ComparisonOf(names, features1, features2, similarity, r) ==
    LET theme == calculateThemeSimilarity(features1.themes, features2.themes)
        musical == calculateMusicalSimilarity(features1.musicalCharacteristics,
                                              features2.musicalCharacteristics)
        lyrical == calculateLyricalSimilarity(features1.lyricalStyle, features2.lyricalStyle)
        shared == [themes |-> findIntersection(features1.themes, features2.themes),
                   musical |-> findSharedMusicalCharacteristics(
                                   features1.musicalCharacteristics,
                                   features2.musicalCharacteristics),
                   lyrical |-> findSharedLyricalCharacteristics(features1.lyricalStyle,
                                                                features2.lyricalStyle)]
    IN  [userFriendlyExplanation |-> generateUserFriendlyExplanation(r, names, shared),
         technicalBreakdown |->
             [themeSimilarity |-> theme, musicalSimilarity |-> musical,
              lyricalSimilarity |-> lyrical,
              overallSimilarity |-> Overall(similarity, theme, musical, lyrical)],
         sharedCharacteristics |-> shared,
         differences |->
             [themes |-> findDifferences(features1.themes, features2.themes),
              musical |-> findDifferentMusicalCharacteristics(
                              features1.musicalCharacteristics,
                              features2.musicalCharacteristics),
              lyrical |-> findDifferentLyricalCharacteristics(features1.lyricalStyle,
                                                              features2.lyricalStyle)]]

\* Math.round(score * 1000) / 1000, of a score that is not negative
RoundToThousandth(x) == Rat((2000 * x[1] + x[2]) \div (2 * x[2]), 1000)

\* documentsData.artists.find(...), lib/utils.ts:549-552 and :573-576
FindDocument(artists, artist, genre) ==
    LET at == {k \in DOMAIN artists :
                  /\ ToLowerCase(artists[k].artist) = ToLowerCase(artist)
                  /\ ToLowerCase(artists[k].genre) = ToLowerCase(genre)}
    IN  IF at = {} THEN Null
        ELSE Some(artists[CHOOSE k \in at : \A u \in at : k <= u])

\* lib/utils.ts:601-604, :616-619 and :654-658
BasicEntry(result) ==
    [artist |-> result.artist, genre |-> result.genre,
     score |-> RoundToThousandth(result.score)]

\* lib/utils.ts:616-621
NullEntry(result) == BasicEntry(result) @@ [explanation |-> Null]

\* lib/utils.ts:601-608
EnhancedEntry(result, comparison, features1, features2) ==
    BasicEntry(result) @@ [explanation |-> Some(comparison),
                           sourceFeatures |-> features1, targetFeatures |-> features2]

\* lib/utils.ts:653-659, the response without explanations
BasicResponse == [kind |-> "basic", results |-> [k \in DOMAIN results |-> BasicEntry(results[k])]]

\* lib/utils.ts:537 is false: explanations are not asked for
RespondBasic ==
    /\ batchPc = "start"
    /\ ~includeExplanations
    /\ httpResponse' = BasicResponse
    /\ batchPc' = "responded"
    /\ UNCHANGED <<body, includeExplanations, documents, batchSourceFeatures, callbacks>>

\* lib/utils.ts:537-558: the documents are loaded and the source looked up;
\* the source extraction is under way unless the load failed, the object is
\* missing, or the source has no document
LoadDocuments ==
    /\ batchPc = "start"
    /\ includeExplanations
    /\ IF documents.kind = "loaded"
          /\ FindDocument(documents.artists, body.sourceArtist, body.sourceGenre).present
       THEN batchPc' = "extractSource" /\ UNCHANGED httpResponse
       ELSE batchPc' = "responded" /\ httpResponse' = BasicResponse
    /\ UNCHANGED <<body, includeExplanations, documents, batchSourceFeatures, callbacks>>

\* The callback of results.map up to its first await, lib/utils.ts:570-579,
\* and to its return when the candidate has no document, :609-621
StartCallback(result) ==
    IF FindDocument(documents.artists, result.artist, result.genre).present
    THEN [pc |-> "extract"]
    ELSE [pc |-> "returned", entry |-> NullEntry(result)]

\* lib/utils.ts:560-570: ai.run has answered the source extraction; every
\* callback of results.map starts, in order
SourceExtracted(r) ==
    /\ batchPc = "extractSource"
    /\ LET outcome == extractArtistFeatures(r)
       IN  IF outcome.threw
           THEN /\ batchPc' = "responded"
                /\ httpResponse' = BasicResponse
                /\ UNCHANGED <<batchSourceFeatures, callbacks>>
           ELSE /\ batchSourceFeatures' = outcome.val
                /\ callbacks' = [k \in DOMAIN results |-> StartCallback(results[k])]
                /\ batchPc' = "map"
                /\ UNCHANGED httpResponse
    /\ UNCHANGED <<body, includeExplanations, documents>>

\* The names compareArtists is called with for a candidate
NamesOf(result) ==
    [sourceArtist |-> body.sourceArtist, sourceGenre |-> body.sourceGenre,
     targetArtist |-> result.artist, targetGenre |-> result.genre]

\* lib/utils.ts:580-598: ai.run has answered the extraction of candidate k;
\* compareArtists runs up to its await, or throws into the catch of :612
TargetExtracted(k, r) ==
    /\ batchPc = "map"
    /\ k \in DOMAIN callbacks
    /\ callbacks[k].pc = "extract"
    /\ LET outcome == extractArtistFeatures(r)
       IN  callbacks' =
             [callbacks EXCEPT ![k] =
                 IF outcome.threw \/ CompareThrows(batchSourceFeatures, outcome.val)
                 THEN [pc |-> "returned", entry |-> NullEntry(results[k]), extraction |-> r]
                 ELSE [pc |-> "explain", targetFeatures |-> outcome.val, extraction |-> r]]
    /\ UNCHANGED <<batchPc, body, includeExplanations, documents, batchSourceFeatures, httpResponse>>

\* lib/utils.ts:589-608: ai.run has answered the explanation of candidate k
\* and its callback returns
Explained(k, r) ==
    /\ batchPc = "map"
    /\ k \in DOMAIN callbacks
    /\ callbacks[k].pc = "explain"
    /\ callbacks' =
          [callbacks EXCEPT ![k] =
              [pc |-> "returned",
               entry |-> EnhancedEntry(results[k],
                                       ComparisonOf(NamesOf(results[k]), batchSourceFeatures,
                                                    callbacks[k].targetFeatures,
                                                    results[k].score, r),
                                       batchSourceFeatures, callbacks[k].targetFeatures),
               extraction |-> callbacks[k].extraction,
               explanation |-> r]]
    /\ UNCHANGED <<batchPc, body, includeExplanations, documents, batchSourceFeatures, httpResponse>>

\* A response that stops at the first candidate without an explanation
EnhancedResponseUntilFailure ==
    LET failed == {k \in DOMAIN callbacks : ~callbacks[k].entry.explanation.present}
        last == IF failed = {} THEN Len(callbacks)
                ELSE (CHOOSE k \in failed : \A u \in failed : k <= u) - 1
    IN  [kind |-> "enhanced", results |-> [k \in 1..last |-> callbacks[k].entry]]

\* lib/utils.ts:625-628
EnhancedResponse ==
    [kind |-> "enhanced", results |-> [k \in DOMAIN callbacks |-> callbacks[k].entry]]

\* lib/utils.ts:569-628: Promise.all resolves once every callback has
\* returned, and the handler responds
Respond ==
    /\ batchPc = "map"
    /\ \A k \in DOMAIN callbacks : callbacks[k].pc = "returned"
    /\ httpResponse' = EnhancedResponse
    /\ batchPc' = "responded"
    /\ UNCHANGED <<body, includeExplanations, documents, batchSourceFeatures, callbacks>>

-----------------------------------------------------------------------------
(* The calls explored                                                      *)

OptionOf(S) == {Null} \cup {Some(v) : v \in S}

\* The state every call starts in
CallStart ==
    /\ pc = "fetchArtist"
    /\ artistVector = Null /\ avgSourceVector = Null /\ avgTargetVector = Null
    /\ equivalentVector = <<>>
    /\ i = 0
    /\ queries = <<>>
    /\ allMatches = <<>>
    /\ uniqueMatches = <<>>
    /\ results = <<>>
    /\ error = NoError

\* Calls against every content of the three fetched vectors of up to MaxDims
\* dimensions, the two genres equal or not, with no candidate to return
InitVectors ==
    /\ sourceArtist = <<"A", " ", "b">>
    /\ sourceGenre = <<"p">>
    /\ targetGenre \in {<<"p">>, <<"r">>}
    /\ topK = 1
    /\ stored = {}
    /\ \E a \in OptionOf(VectorsOver({0, 1})),
          s \in OptionOf(VectorsOver({0, 1})),
          t \in OptionOf(VectorsOver({0, 2})) :
        index = [id \in {ArtistId(sourceArtist, sourceGenre), CentroidId(sourceGenre),
                         CentroidId(targetGenre)} |->
                    IF id = ArtistId(sourceArtist, sourceGenre) THEN a
                    ELSE IF id = CentroidId(sourceGenre) THEN s
                    ELSE t]
    /\ CallStart

\* Calls with every topK against an index whose queries can answer with any
\* of the candidates
InitPool ==
    /\ sourceArtist = <<"A">>
    /\ sourceGenre = <<"p">>
    /\ targetGenre = <<" ", "R">>
    /\ topK \in 0..MaxTopK
    /\ stored = {"v1", "v2", "v3", "v4"}
    /\ index = [id \in {ArtistId(sourceArtist, sourceGenre), CentroidId(sourceGenre),
                        CentroidId(targetGenre)} |->
                   IF id = ArtistId(sourceArtist, sourceGenre) THEN Some(<<1, 0>>)
                   ELSE IF id = CentroidId(sourceGenre) THEN Some(<<0, 0>>)
                   ELSE Some(<<2, 0>>)]
    /\ CallStart

\* Calls against candidates whose metadata lacks a field
InitMetadata ==
    /\ sourceArtist = <<"A">>
    /\ sourceGenre = <<"p">>
    /\ targetGenre = <<"r">>
    /\ topK = MaxTopK
    /\ stored = {"v1", "v5", "v6"}
    /\ index = [id \in {ArtistId(sourceArtist, sourceGenre), CentroidId(sourceGenre),
                        CentroidId(targetGenre)} |-> Some(<<1>>)]
    /\ CallStart

\* No compareArtists call is under way
ScorerIdle ==
    /\ scorePc = "idle"
    /\ sourceFeatures = <<>> /\ targetFeatures = <<>>
    /\ vectorSimilarity = NotScored
    /\ themeSimilarity = NotScored /\ musicalSimilarity = NotScored
    /\ lyricalSimilarity = NotScored /\ overallSimilarity = NotScored
    /\ compared = <<>> /\ response = <<>>
    /\ sharedCharacteristics = NotScored /\ differences = NotScored
    /\ userFriendlyExplanation = NotScored

\* No extractArtistFeatures call is under way
ExtractorIdle == extractPc = "idle" /\ extractResponse = <<>> /\ features = <<>>

\* No /api/find-equivalent request is being handled
BatchIdle ==
    /\ batchPc = "idle"
    /\ body = <<>> /\ includeExplanations = FALSE /\ documents = <<>>
    /\ batchSourceFeatures = <<>> /\ callbacks = <<>> /\ httpResponse = <<>>

\* No two calls run concurrently
PairIdle == requests = <<>>

\* The worker has received no request
GateIdle == request = <<>> /\ appPasscode = <<>> /\ gateResponse = <<>>

\* No page is being loaded
ClientIdle ==
    /\ clientPc = "idle" /\ sessionStorage = Null /\ attempts = 0
    /\ passcode = <<>> /\ validated = {} /\ page = "none"

\* No processToolCalls call is under way
ToolsIdle == messages = <<>> /\ dataStream = <<>> /\ invoked = <<>> /\ passes = 0

\* No embeddings are being generated
EmbedIdle ==
    /\ embedRequest = <<>> /\ allArtists = <<>> /\ embedResponse = <<>> /\ processed = <<>>

EdgeIdle == PairIdle /\ GateIdle /\ ClientIdle /\ ToolsIdle /\ EmbedIdle

Init ==
    /\ InitVectors \/ InitPool \/ InitMetadata
    /\ ScorerIdle /\ ExtractorIdle /\ BatchIdle /\ EdgeIdle

Next ==
    /\ \/ FetchArtist
       \/ FetchSourceCentroid
       \/ FetchTargetCentroid
       \/ QueryFails
       \/ QueryAnswers
       \/ LastQueryAnswers
    /\ UNCHANGED <<scorerVars, extractVars, batchVars, edgeVars>>

Spec == Init /\ [][Next]_vars

\* No findEquivalentArtists call is under way
ResolverIdle ==
    /\ pc = "idle"
    /\ index = <<>> /\ stored = {}
    /\ sourceArtist = <<>> /\ sourceGenre = <<>> /\ targetGenre = <<>> /\ topK = 0
    /\ artistVector = Null /\ avgSourceVector = Null /\ avgTargetVector = Null
    /\ equivalentVector = <<>>
    /\ i = 0
    /\ queries = <<>>
    /\ allMatches = <<>>
    /\ uniqueMatches = <<>>
    /\ results = <<>>
    /\ error = NoError

\* The strings of the feature records
ThemeStrings == {<<"a">>, <<"A", " ">>, <<" ", "a">>, <<"b">>, <<"c">>}
AttributeStrings == {<<>>, <<"a">>, <<"A">>, <<"b">>}
InstrumentStrings == {<<"a">>, <<"A">>, <<"b">>}

ListsOver(S) == SeqsUpTo(S, MaxList)

\* A record with the fields of `fields` that have a value in `r`
Defined(r, fields) == [f \in {g \in fields : r[g].present} |-> r[f].val]

ScoreStart ==
    /\ scorePc = "start"
    /\ themeSimilarity = NotScored /\ musicalSimilarity = NotScored
    /\ lyricalSimilarity = NotScored /\ overallSimilarity = NotScored
    /\ sharedCharacteristics = NotScored /\ differences = NotScored
    /\ userFriendlyExplanation = NotScored

\* The names of the two artists and of their genres
Names ==
    [sourceArtist |-> <<"S">>, sourceGenre |-> <<"p">>,
     targetArtist |-> <<"T">>, targetGenre |-> <<"r">>]

\* A call between two named artists that ai.run answers with a text
PlainCall ==
    /\ compared = Names
    /\ response = ResponseAnswer(<<"x">>)

\* The texts ai.run answers with: empty, whitespace only, or with a word
AnswerTexts == {<<>>, <<" ">>, <<"x">>, <<" ", "x", " ">>}

Responses ==
    {Throws, NullAnswer, NumberAnswer, NoContentAnswer, EmptyObjectAnswer}
    \cup {StringAnswer(s) : s \in AnswerTexts}
    \cup {ResponseAnswer(s) : s \in AnswerTexts}
    \cup {ChoicesAnswer(s) : s \in AnswerTexts}

\* Comparisons under every answer of ai.run, of records that share themes
\* and a tempo or none
InitExplain ==
    /\ \E t1, t2 \in {<<>>, <<<<"A", " ">>>>, <<<<"a">>, <<"b">>>>},
          m1, m2 \in [{"tempo"} -> OptionOf({<<"a">>})] :
        /\ sourceFeatures = [themes |-> t1,
                             musicalCharacteristics |-> Defined(m1, {"tempo"}),
                             lyricalStyle |-> DefaultStyle]
        /\ targetFeatures = [themes |-> t2,
                             musicalCharacteristics |-> Defined(m2, {"tempo"}),
                             lyricalStyle |-> DefaultStyle]
    /\ vectorSimilarity = Rat(4, 5)
    /\ compared \in {Names, [Names EXCEPT !.sourceArtist = <<>>, !.targetArtist = <<>>]}
    /\ response \in Responses
    /\ ScoreStart

\* Comparisons of records that lack a part or hold a text for the topics
InitMalformed ==
    /\ LET whole == [themes |-> <<<<"a">>>>, musicalCharacteristics |-> <<>>,
                     lyricalStyle |-> DefaultStyle]
           records == {whole,
                       [musicalCharacteristics |-> <<>>, lyricalStyle |-> DefaultStyle],
                       [themes |-> <<>>, lyricalStyle |-> DefaultStyle],
                       [themes |-> <<<<"a">>>>, musicalCharacteristics |-> <<>>],
                       [whole EXCEPT !.lyricalStyle =
                           [complexity |-> "simple", commonTopicsText |-> <<"a">>]]}
       IN  sourceFeatures \in records /\ targetFeatures \in records
    /\ vectorSimilarity = Rat(4, 5)
    /\ PlainCall
    /\ ScoreStart

\* The comparison the specification works out: two records that share one
\* of three themes, the energy, one word of the tone and the topic
InitExample ==
    /\ sourceFeatures =
          [themes |-> <<<<"love">>, <<"loss">>>>,
           musicalCharacteristics |-> [energy |-> <<"high">>],
           lyricalStyle |->
               [complexity |-> "complex",
                emotionalTone |-> <<"b", "i", "t", "t", "e", "r", "s", "w", "e", "e", "t", " ", "l", "o", "n", "g", "i", "n", "g">>,
                commonTopics |-> <<<<"breakup">>>>]]
    /\ targetFeatures =
          [themes |-> <<<<"loss">>, <<"hope">>>>,
           musicalCharacteristics |-> [energy |-> <<"high">>],
           lyricalStyle |->
               [complexity |-> "moderate",
                emotionalTone |-> <<"h", "o", "p", "e", "f", "u", "l", " ", "l", "o", "n", "g", "i", "n", "g">>,
                commonTopics |-> <<<<"breakup">>>>]]
    /\ vectorSimilarity = Rat(4, 5)
    /\ PlainCall
    /\ ScoreStart

\* Comparisons of every pair of tempo, energy and mood, each absent, empty
\* or set, and of instrumentation lists whose entries differ in letter case
\* or in surrounding whitespace
InitAttributeLists ==
    /\ \/ \E t1, t2 \in [{"tempo"} -> OptionOf(AttributeStrings)],
             e1, e2 \in [{"energy"} -> OptionOf({<<>>, <<"a">>, <<"b">>})],
             d1, d2 \in [{"mood"} -> OptionOf({<<"a">>, <<"A">>})] :
           /\ sourceFeatures = [themes |-> <<>>,
                                musicalCharacteristics |->
                                    Defined(t1 @@ e1 @@ d1, {"tempo", "energy", "mood"}),
                                lyricalStyle |-> DefaultStyle]
           /\ targetFeatures = [themes |-> <<>>,
                                musicalCharacteristics |->
                                    Defined(t2 @@ e2 @@ d2, {"tempo", "energy", "mood"}),
                                lyricalStyle |-> DefaultStyle]
       \/ \E m1, m2 \in [{"instrumentation"} ->
                             OptionOf({<<>>, <<<<"a">>>>, <<<<"A", " ">>, <<"b">>>>, <<<<"b">>>>})] :
           /\ sourceFeatures = [themes |-> <<>>,
                                musicalCharacteristics |-> Defined(m1, {"instrumentation"}),
                                lyricalStyle |-> DefaultStyle]
           /\ targetFeatures = [themes |-> <<>>,
                                musicalCharacteristics |-> Defined(m2, {"instrumentation"}),
                                lyricalStyle |-> DefaultStyle]
    /\ vectorSimilarity = Rat(4, 5)
    /\ PlainCall
    /\ ScoreStart

\* Comparisons of records that share no theme, one or four, and no
\* attribute, one or two, which ai.run fails or answers
InitFallback ==
    /\ \E t1, t2 \in {<<>>, <<<<"a">>>>, <<<<"a">>, <<"b">>, <<"c">>, <<"d">>>>},
          m1, m2 \in {<<>>, [tempo |-> <<"x">>], [tempo |-> <<"x">>, energy |-> <<"y">>]} :
        /\ sourceFeatures = [themes |-> t1, musicalCharacteristics |-> m1,
                             lyricalStyle |-> DefaultStyle]
        /\ targetFeatures = [themes |-> t2, musicalCharacteristics |-> m2,
                             lyricalStyle |-> DefaultStyle]
    /\ vectorSimilarity = Rat(4, 5)
    /\ compared = Names
    /\ response \in {Throws, NullAnswer, ResponseAnswer(<<"x">>)}
    /\ ScoreStart

\* Comparisons of every pair of theme lists
InitThemes ==
    /\ \E t1 \in ListsOver(ThemeStrings), t2 \in ListsOver(ThemeStrings) :
        /\ sourceFeatures = [themes |-> t1, musicalCharacteristics |-> <<>>,
                             lyricalStyle |-> DefaultStyle]
        /\ targetFeatures = [themes |-> t2, musicalCharacteristics |-> <<>>,
                             lyricalStyle |-> DefaultStyle]
    /\ vectorSimilarity \in {Rat(4, 5), Rat(1, 1)}
    /\ PlainCall
    /\ ScoreStart

\* Comparisons of every pair of scalar attributes, each absent, empty or set
InitScalars ==
    /\ \E m1, m2 \in [{"tempo", "key"} -> OptionOf(AttributeStrings)],
          n1, n2 \in [{"mood", "energy"} -> OptionOf({<<"a">>})] :
        /\ sourceFeatures = [themes |-> <<>>,
                             musicalCharacteristics |->
                                 Defined(m1 @@ n1, {"tempo", "key", "mood", "energy"}),
                             lyricalStyle |-> DefaultStyle]
        /\ targetFeatures = [themes |-> <<>>,
                             musicalCharacteristics |->
                                 Defined(m2 @@ n2, {"tempo", "key", "mood", "energy"}),
                             lyricalStyle |-> DefaultStyle]
    /\ vectorSimilarity = Rat(4, 5)
    /\ PlainCall
    /\ ScoreStart

\* Comparisons of every pair of instrumentation lists, each absent or a list
InitInstrumentation ==
    /\ \E m1, m2 \in [{"instrumentation"} -> OptionOf(ListsOver(InstrumentStrings))],
          n1, n2 \in [{"tempo"} -> OptionOf({<<"a">>, <<"b">>})] :
        /\ sourceFeatures = [themes |-> <<>>,
                             musicalCharacteristics |->
                                 Defined(m1 @@ n1, {"tempo", "instrumentation"}),
                             lyricalStyle |-> DefaultStyle]
        /\ targetFeatures = [themes |-> <<>>,
                             musicalCharacteristics |->
                                 Defined(m2 @@ n2, {"tempo", "instrumentation"}),
                             lyricalStyle |-> DefaultStyle]
    /\ vectorSimilarity = Rat(4, 5)
    /\ PlainCall
    /\ ScoreStart

\* The values of emotionalTone and of the entries of commonTopics
ToneStrings ==
    {<<>>, <<"a", "a", "a", "a">>, <<"A", "a", "a", "a">>, <<"a", "b", "c">>,
     <<"a", "a", "a", "a", " ", "b">>, <<" ", "a", "a", "a", "a">>}
TopicStrings == {<<"a">>, <<"A", " ">>, <<"b">>}

\* The embedding similarities compareArtists is called with
Similarities == {Rat(0, 1), Rat(1, 2), Rat(1, 1)}

\* Comparisons of every pair of complexity and emotionalTone, each absent or set
InitTone ==
    /\ \E c1, c2 \in [{"complexity"} -> OptionOf({"", "simple", "complex"})],
          e1, e2 \in [{"emotionalTone"} -> OptionOf(ToneStrings)],
          t \in [{"commonTopics"} -> OptionOf({<<>>})] :
        /\ sourceFeatures = [themes |-> <<>>, musicalCharacteristics |-> <<>>,
                             lyricalStyle |->
                                 Defined(c1 @@ e1 @@ t,
                                         {"complexity", "emotionalTone", "commonTopics"})]
        /\ targetFeatures = [themes |-> <<>>, musicalCharacteristics |-> <<>>,
                             lyricalStyle |->
                                 Defined(c2 @@ e2 @@ [commonTopics |-> Some(<<>>)],
                                         {"complexity", "emotionalTone", "commonTopics"})]
    /\ vectorSimilarity = Rat(1, 2)
    /\ PlainCall
    /\ ScoreStart

\* Comparisons of every pair of commonTopics lists, each absent or a list
InitTopics ==
    /\ \E c1, c2 \in [{"complexity"} -> OptionOf({"simple"})],
          t1, t2 \in [{"commonTopics"} -> OptionOf(ListsOver(TopicStrings))] :
        /\ sourceFeatures = [themes |-> <<>>,
                             musicalCharacteristics |-> [tempo |-> <<"a">>],
                             lyricalStyle |->
                                 Defined(c1 @@ t1, {"complexity", "commonTopics"})]
        /\ targetFeatures = [themes |-> <<>>,
                             musicalCharacteristics |-> [tempo |-> <<"A">>],
                             lyricalStyle |->
                                 Defined(c2 @@ t2, {"complexity", "commonTopics"})]
    /\ vectorSimilarity \in Similarities
    /\ PlainCall
    /\ ScoreStart

ScoreInit ==
    /\ \/ InitThemes \/ InitScalars \/ InitInstrumentation \/ InitTone \/ InitTopics
       \/ InitExplain \/ InitMalformed \/ InitExample \/ InitAttributeLists
       \/ InitFallback
    /\ ResolverIdle /\ ExtractorIdle /\ BatchIdle /\ EdgeIdle

ScoreNext ==
    /\ Score \/ ScoreThrows \/ Explain
    /\ UNCHANGED <<resolverVars, extractVars, batchVars, edgeVars>>

SpecScore == ScoreInit /\ [][ScoreNext]_vars

\* The texts ai.run answers the extraction prompt with: nothing, a JSON text
\* alone, within whitespace, within code fences, and within prose
ExtractionTexts ==
    {<<>>, <<" ">>, <<"prose">>}
    \cup UNION {{<<b>>, <<" ", b, " ">>,
                 <<JsonFence, " ", b, " ", Fence>>, <<Fence, b, Fence>>,
                 <<"prose", " ", b>>, <<b, " ", "prose">>,
                 <<"prose", " ", b, " ", "prose">>} : b \in Bodies}

ExtractionResponses ==
    {Throws, NullAnswer, NumberAnswer, NoContentAnswer, EmptyObjectAnswer}
    \cup {StringAnswer(s) : s \in ExtractionTexts}
    \cup {ResponseAnswer(s) : s \in ExtractionTexts}
    \cup {ChoicesAnswer(s) : s \in ExtractionTexts}

\* Extractions under every answer of ai.run
ExtractInit ==
    /\ extractPc = "start"
    /\ extractResponse \in ExtractionResponses
    /\ features = <<>>
    /\ ResolverIdle /\ ScorerIdle /\ BatchIdle /\ EdgeIdle

ExtractNext == Extract /\ UNCHANGED <<resolverVars, scorerVars, batchVars, edgeVars>>

SpecExtract == ExtractInit /\ [][ExtractNext]_vars

\* findEquivalentArtists has returned rs to the handler, lib/utils.ts:527-533
ResolverReturned(rs) ==
    /\ pc = "done"
    /\ index = <<>> /\ stored = {}
    /\ sourceArtist = <<>> /\ sourceGenre = <<>> /\ targetGenre = <<>> /\ topK = BatchTopK
    /\ artistVector = Null /\ avgSourceVector = Null /\ avgTargetVector = Null
    /\ equivalentVector = <<>>
    /\ i = 0
    /\ queries = <<>>
    /\ allMatches = <<>>
    /\ uniqueMatches = <<>>
    /\ results = rs
    /\ error = NoError

\* The lists of up to BatchTopK candidates the resolver returns, three
\* candidates with their cosine scores
ResultLists ==
    LET CandidateA == [artist |-> <<"a">>, genre |-> <<"r">>, score |-> Rat(4, 5)]
        CandidateB == [artist |-> <<"b">>, genre |-> <<"r">>, score |-> Rat(12345, 100000)]
        CandidateC == [artist |-> <<"c">>, genre |-> <<"r">>, score |-> Rat(1, 2)]
    IN  {<<>>, <<CandidateA>>, <<CandidateB, CandidateA>>,
         <<CandidateA, CandidateB, CandidateC>>}

\* What loading artist_documents.json gives: an error, no object, or its
\* artists, the source and the candidates, the names in the letter case of
\* the file
DocumentLoads ==
    LET SourceDocument == [artist |-> <<"b">>, genre |-> <<"P">>, document |-> <<"text">>]
        DocumentA == [artist |-> <<"A">>, genre |-> <<"r">>, document |-> <<"text">>]
        DocumentB == [artist |-> <<"b">>, genre |-> <<"R">>, document |-> <<"text">>]
        DocumentC == [artist |-> <<"c">>, genre |-> <<"r">>, document |-> <<"text">>]
    IN  {[kind |-> "throws"], [kind |-> "missing"]}
        \cup {[kind |-> "loaded", artists |-> a] :
                  a \in {<<>>, <<DocumentA, DocumentB>>, <<SourceDocument>>,
                         <<SourceDocument, DocumentA, DocumentC>>,
                         <<DocumentC, DocumentB, SourceDocument, DocumentA>>}}

\* The answers of ai.run to the extraction prompts of a request: an error, a
\* full record, a record whose topics are a text, an empty object
BatchExtractions ==
    {Throws, StringAnswer(<<"{full}">>), StringAnswer(<<"{badtopics}">>),
     ResponseAnswer(<<"{bare}">>)}

\* The answers of ai.run to the explanation prompts of a request
BatchExplanations == {Throws, ResponseAnswer(<<"x">>), StringAnswer(<<" ">>)}

\* Requests for every list of candidates and every load of the documents
BatchInit ==
    /\ \E rs \in ResultLists : ResolverReturned(rs)
    /\ batchPc = "start"
    /\ body = [sourceArtist |-> <<"B">>, sourceGenre |-> <<"p">>, targetGenre |-> <<"r">>]
    /\ includeExplanations \in BOOLEAN
    /\ documents \in DocumentLoads
    /\ batchSourceFeatures = <<>> /\ callbacks = <<>> /\ httpResponse = <<>>
    /\ ScorerIdle /\ ExtractorIdle /\ EdgeIdle

BatchNext ==
    /\ \/ RespondBasic
       \/ LoadDocuments
       \/ \E r \in BatchExtractions : SourceExtracted(r)
       \/ \E k \in 1..BatchTopK, r \in BatchExtractions : TargetExtracted(k, r)
       \/ \E k \in 1..BatchTopK, r \in BatchExplanations : Explained(k, r)
       \/ Respond
    /\ UNCHANGED <<resolverVars, scorerVars, extractVars, edgeVars>>

SpecBatch == BatchInit /\ [][BatchNext]_vars

-----------------------------------------------------------------------------
(* What the claims speak of                                                *)

ArtistStored == index[ArtistId(sourceArtist, sourceGenre)]
SourceCentroidStored == index[CentroidId(sourceGenre)]
TargetCentroidStored == index[CentroidId(targetGenre)]

AllStored ==
    ArtistStored.present /\ SourceCentroidStored.present /\ TargetCentroidStored.present

SameLengths ==
    /\ Len(SourceCentroidStored.val) = Len(ArtistStored.val)
    /\ Len(TargetCentroidStored.val) = Len(ArtistStored.val)

NormalizedGroup(g) == Trim(ToLowerCase(g))

\* The filter as the claim C7 words it: an entity of the target group
ClaimedEligible(m) ==
    /\ Has(m.metadata, "type") /\ m.metadata.type = "artist"
    /\ Has(m.metadata, "genre")
    /\ NormalizedGroup(m.metadata.genre) = NormalizedGroup(targetGenre)

\* The same, of a candidate that also has a name
PassesFilter(m) ==
    /\ ClaimedEligible(m)
    /\ Has(m.metadata, "artist") /\ m.metadata.artist # <<>>

Survivors == SelectSeq(uniqueMatches, PassesFilter)

AsResult(m) == [artist |-> m.metadata.artist, genre |-> m.metadata.genre, score |-> m.score]

FirstIndexOf(id) ==
    CHOOSE k \in DOMAIN allMatches :
        /\ allMatches[k].id = id
        /\ \A j \in 1..(k - 1) : allMatches[j].id # id

\* C1: the returned list is the first min(topK, survivors) candidates of the
\* deduplicated pool that pass the filter, in non-increasing score order, and
\* no survivor left out has a higher score than a returned one.
C1_FirstTopKSurvivors ==
    pc = "done" =>
        /\ Len(results) = Min(topK, Len(Survivors))
        /\ \A k \in 1..Len(results) : results[k] = AsResult(Survivors[k])
        /\ \A k \in 1..(Len(results) - 1) : results[k].score >= results[k + 1].score
        /\ \A k \in (Len(results) + 1)..Len(Survivors) :
              \A r \in 1..Len(results) : Survivors[k].score <= results[r].score

\* C2: the returned list never has more than topK entries.
C2_AtMostTopK ==
    pc = "done" => Len(results) <= topK

\* C3: when the source vector, the source centroid or the target centroid is
\* absent from the index, the call issues no query and returns nothing, it
\* fails no later than at the fetch of the first absent vector, and the error
\* names the identifier whose fetch came back empty: the artist and its genre,
\* the source genre or the target genre.
C3_NotFoundNamesMissing ==
    ~AllStored =>
        /\ queries = <<>> /\ results = <<>>
        /\ pc \in {"fetchArtist", "fetchSource", "fetchTarget", "failed"}
        /\ ~ArtistStored.present => pc \in {"fetchArtist", "failed"}
        /\ ~SourceCentroidStored.present => pc \in {"fetchArtist", "fetchSource", "failed"}
        /\ pc = "failed" =>
              \/ /\ error = <<"Artist", sourceArtist, "not found in genre", sourceGenre>>
                 /\ ~artistVector.present
              \/ /\ error = <<"Average vector not found for source genre", sourceGenre>>
                 /\ artistVector.present /\ ~avgSourceVector.present
              \/ /\ error = <<"Average vector not found for target genre", targetGenre>>
                 /\ artistVector.present /\ avgSourceVector.present
                 /\ ~avgTargetVector.present
        /\ (pc = "failed" /\ ~ArtistStored.present) => error[1] = "Artist"
        /\ (pc = "failed" /\ artistVector.present /\ ~SourceCentroidStored.present) =>
              error = <<"Average vector not found for source genre", sourceGenre>>
        /\ (pc = "failed" /\ artistVector.present /\ avgSourceVector.present) =>
              error = <<"Average vector not found for target genre", targetGenre>>

C3_Witness ==
    /\ pc = "failed"
    /\ ArtistStored.present /\ SourceCentroidStored.present /\ ~TargetCentroidStored.present
    /\ error = <<"Average vector not found for target genre", targetGenre>>

\* C4: the anchor of the first query is v_e - c_src + c_tgt in every
\* component, has the length of the three inputs and is not perturbed;
\* [1,0], [0,0], [2,0] give [3,0].
C4_AnalogyVector ==
    queries # <<>> =>
        LET a == ArtistStored.val
            s == SourceCentroidStored.val
            t == TargetCentroidStored.val
            anchor == queries[1].anchor
        IN  /\ Len(anchor) = Len(a) /\ Len(anchor) = Len(s) /\ Len(anchor) = Len(t)
            /\ \A j \in 1..Len(anchor) : anchor[j] + s[j] = a[j] + t[j]
            /\ queries[1].noise = 0
            /\ (a = <<1, 0>> /\ s = <<0, 0>> /\ t = <<2, 0>>) => anchor = <<3, 0>>

C4_Witness ==
    /\ queries # <<>>
    /\ ArtistStored = Some(<<1, 0>>)
    /\ SourceCentroidStored = Some(<<0, 0>>)
    /\ TargetCentroidStored = Some(<<2, 0>>)
    /\ queries[1].anchor = <<3, 0>>

\* C5: when the three vectors are stored but not all of one length, the call
\* issues no query and returns nothing, and once the three fetches have
\* succeeded it fails with the dimension-mismatch error.
C5_DimensionMismatch ==
    (AllStored /\ ~SameLengths) =>
        /\ queries = <<>> /\ results = <<>>
        /\ pc \in {"fetchArtist", "fetchSource", "fetchTarget", "failed"}
        /\ (pc = "failed" /\ avgTargetVector.present) =>
              error = <<"Vector dimension mismatch">>

C5_Witness ==
    /\ AllStored /\ ~SameLengths
    /\ Len(TargetCentroidStored.val) > Len(ArtistStored.val)
    /\ pc = "failed"
    /\ error = <<"Vector dimension mismatch">>

\* C6: the merged pool holds exactly one entry for every id the three
\* queries returned, and it is the first occurrence in query order.
C6_FirstOccurrenceKept ==
    pc = "done" =>
        /\ \A k \in DOMAIN allMatches :
              LET id == allMatches[k].id
                  at == {u \in DOMAIN uniqueMatches : uniqueMatches[u].id = id}
              IN  /\ Cardinality(at) = 1
                  /\ \A u \in at : uniqueMatches[u] = allMatches[FirstIndexOf(id)]
        /\ \A u \in DOMAIN uniqueMatches :
              \E k \in DOMAIN allMatches : allMatches[k].id = uniqueMatches[u].id

C6_Witness ==
    /\ pc = "done"
    /\ \E j, k \in DOMAIN allMatches :
          /\ j < k
          /\ allMatches[j].id = allMatches[k].id
          /\ allMatches[k].score > allMatches[j].score
          /\ \E u \in DOMAIN uniqueMatches : uniqueMatches[u] = allMatches[j]

\* C7 as claimed: a pooled candidate is eligible if and only if its type is
\* "artist" and its group equals targetGenre after lowercasing and trimming.
C7_EligibleIffEntityOfGroup ==
    (pc = "done" /\ Len(results) < topK) =>
        Len(results) = Len(SelectSeq(uniqueMatches, ClaimedEligible))

\* C7 amended: a pooled candidate is eligible if and only if its type is
\* "artist", it has a non-empty artist name and its group equals targetGenre
\* after lowercasing and trimming both; the results are such candidates in
\* pool order, all of them when the loop was not cut short by topK.
C7_EligibleIffNamedEntityOfGroup ==
    pc = "done" =>
        /\ Len(results) <= Len(Survivors)
        /\ \A k \in 1..Len(results) : results[k] = AsResult(Survivors[k])
        /\ Len(results) < topK => Len(results) = Len(Survivors)
        /\ \A r \in DOMAIN results : results[r].artist # <<"r">>
        /\ (Len(results) < topK /\ \E k \in DOMAIN allMatches : allMatches[k].id = "v2")
              => \E r \in DOMAIN results : results[r].artist = <<"b">>

C7_Witness ==
    /\ pc = "done"
    /\ Len(results) < topK
    /\ targetGenre = <<" ", "R">>
    /\ \E r \in DOMAIN results : results[r].genre = <<"R", " ">>
    /\ \E u \in DOMAIN uniqueMatches :
          /\ uniqueMatches[u].id = "v4"
          /\ \A r \in DOMAIN results : uniqueMatches[u].score > results[r].score

NormalizedThemes(arr) == {Trim(ToLowerCase(arr[k])) : k \in DOMAIN arr}

\* C9: the theme score is |A' \cap B'| / |A' \cup B'| of the lowercased,
\* trimmed theme sets, 1 when both lists are empty, 0 when exactly one is,
\* 1/3 for [a,b] against [b,c], and the same with the two lists exchanged.
C9_ThemeJaccard ==
    scorePc = "scored" =>
        LET A == NormalizedThemes(sourceFeatures.themes)
            B == NormalizedThemes(targetFeatures.themes)
        IN  /\ (A = {} /\ B = {}) => themeSimilarity = <<1, 1>>
            /\ ((A = {}) # (B = {})) => themeSimilarity = <<0, 1>>
            /\ (A # {} /\ B # {}) =>
                  /\ themeSimilarity[2] > 0
                  /\ themeSimilarity[1] * Cardinality(A \cup B)
                        = themeSimilarity[2] * Cardinality(A \cap B)
            /\ (sourceFeatures.themes = <<<<"a">>, <<"b">>>>
                /\ targetFeatures.themes = <<<<"b">>, <<"c">>>>) => themeSimilarity = <<1, 3>>
            /\ calculateThemeSimilarity(targetFeatures.themes, sourceFeatures.themes)
                  = themeSimilarity

C9_Witness ==
    /\ scorePc = "scored"
    /\ sourceFeatures.themes = <<<<"a">>, <<"b">>>>
    /\ targetFeatures.themes = <<<<"b">>, <<"c">>>>
    /\ themeSimilarity = <<1, 3>>

SourceMusic == sourceFeatures.musicalCharacteristics
TargetMusic == targetFeatures.musicalCharacteristics

ScalarNames == {"tempo", "key", "mood", "energy"}

\* The scalar attributes both records have a field for, and those of them
\* that are equal case-insensitively
PresentInBoth == {f \in ScalarNames : f \in DOMAIN SourceMusic /\ f \in DOMAIN TargetMusic}
EqualIgnoringCase(F) == {f \in F : ToLowerCase(SourceMusic[f]) = ToLowerCase(TargetMusic[f])}

\* The same, of the fields that are not the empty string on either side
NonEmptyInBoth == {f \in PresentInBoth : SourceMusic[f] # <<>> /\ TargetMusic[f] # <<>>}

\* The instrumentation unit as calculateMusicalSimilarity counts it:
\* <<weight, units>>
InstrumentationUnit ==
    IF "instrumentation" \in DOMAIN SourceMusic /\ "instrumentation" \in DOMAIN TargetMusic
    THEN LET a == {ToLowerCase(SourceMusic.instrumentation[k]) :
                       k \in DOMAIN SourceMusic.instrumentation}
             b == {ToLowerCase(TargetMusic.instrumentation[k]) :
                       k \in DOMAIN TargetMusic.instrumentation}
         IN  IF a \cup b = {} THEN <<<<0, 1>>, 0>>
             ELSE <<<<Cardinality(a \cap b), Cardinality(a \cup b)>>, 1>>
    ELSE <<<<0, 1>>, 0>>

\* x = (matches + w) / total, by cross-multiplication
IsQuotient(x, matches, w, total) ==
    /\ x[2] > 0
    /\ x[1] * w[2] * total = x[2] * (matches * w[2] + w[1])

\* C10 as claimed: the attribute score counts the scalar attributes present
\* in both records, a unit matching when the values are equal
\* case-insensitively; it is matches/total when total > 0 and 1/2 otherwise.
C10_CountsPresentInBoth ==
    scorePc = "scored" =>
        LET total == Cardinality(PresentInBoth) + InstrumentationUnit[2]
        IN  IF total > 0
            THEN IsQuotient(musicalSimilarity, Cardinality(EqualIgnoringCase(PresentInBoth)),
                            InstrumentationUnit[1], total)
            ELSE musicalSimilarity = <<1, 2>>

\* C10 amended: the attribute score counts the scalar attributes that are
\* present and not the empty string in both records, a unit matching when
\* the values are equal case-insensitively; it is matches/total when
\* total > 0 and exactly 1/2 when nothing is comparable, as when neither
\* record has an attribute field.
C10_CountsNonEmptyInBoth ==
    scorePc = "scored" =>
        LET total == Cardinality(NonEmptyInBoth) + InstrumentationUnit[2]
        IN  /\ IF total > 0
               THEN IsQuotient(musicalSimilarity, Cardinality(EqualIgnoringCase(NonEmptyInBoth)),
                               InstrumentationUnit[1], total)
               ELSE musicalSimilarity = <<1, 2>>
            /\ (DOMAIN SourceMusic = {} /\ DOMAIN TargetMusic = {}) =>
                  musicalSimilarity = <<1, 2>>
            /\ (InstrumentationUnit[2] = 0 /\ NonEmptyInBoth # {}) =>
                  musicalSimilarity = Rat(Cardinality(EqualIgnoringCase(NonEmptyInBoth)),
                                          Cardinality(NonEmptyInBoth))

C10_Witness ==
    /\ scorePc = "scored"
    /\ Cardinality(NonEmptyInBoth) = 3
    /\ "key" \in DOMAIN SourceMusic /\ "key" \notin DOMAIN TargetMusic
    /\ SourceMusic.tempo = <<"A">> /\ TargetMusic.tempo = <<"a">>
    /\ musicalSimilarity = <<1, 1>>

\* Both records have an instrumentation field; the two lowercased sets
BothExposeInstrumentation ==
    "instrumentation" \in DOMAIN SourceMusic /\ "instrumentation" \in DOMAIN TargetMusic
SourceInstruments ==
    {ToLowerCase(SourceMusic.instrumentation[k]) : k \in DOMAIN SourceMusic.instrumentation}
TargetInstruments ==
    {ToLowerCase(TargetMusic.instrumentation[k]) : k \in DOMAIN TargetMusic.instrumentation}

\* |a \cap b| / |a \cup b|, with `ofEmpty` for a pair of empty sets
JaccardOf(a, b, ofEmpty) ==
    IF a \cup b = {} THEN ofEmpty ELSE <<Cardinality(a \cap b), Cardinality(a \cup b)>>

\* The attribute score is that of the scalar units plus one unit of weight w
ScalarsPlusUnit(w) ==
    IsQuotient(musicalSimilarity, Cardinality(EqualIgnoringCase(NonEmptyInBoth)), w,
               Cardinality(NonEmptyInBoth) + 1)

\* The attribute score is that of the scalar units alone
ScalarsOnly ==
    IF NonEmptyInBoth = {} THEN musicalSimilarity = <<1, 2>>
    ELSE IsQuotient(musicalSimilarity, Cardinality(EqualIgnoringCase(NonEmptyInBoth)),
                    <<0, 1>>, Cardinality(NonEmptyInBoth))

\* C11 as claimed: whenever both records expose instrumentation, empty lists
\* included, the attribute score has exactly one more unit, weighted by the
\* Jaccard similarity of the two sets (a pair of empty sets counted as 1 or
\* as 0); when either record lacks instrumentation there is no such unit.
C11_UnitWheneverBothExpose ==
    scorePc = "scored" =>
        IF BothExposeInstrumentation
        THEN \E ofEmpty \in {<<0, 1>>, <<1, 1>>} :
                 ScalarsPlusUnit(JaccardOf(SourceInstruments, TargetInstruments, ofEmpty))
        ELSE ScalarsOnly

\* C11 amended: when both records expose instrumentation and at least one of
\* the two lists has an element, the attribute score has exactly one more
\* unit, weighted by the Jaccard similarity of the two lowercased sets; when
\* either record lacks instrumentation, or both lists are empty, there is no
\* such unit.
C11_UnitWhenSomeInstrument ==
    scorePc = "scored" =>
        IF BothExposeInstrumentation /\ SourceInstruments \cup TargetInstruments # {}
        THEN ScalarsPlusUnit(JaccardOf(SourceInstruments, TargetInstruments, <<0, 1>>))
        ELSE ScalarsOnly

C11_Witness ==
    /\ scorePc = "scored"
    /\ BothExposeInstrumentation
    /\ SourceMusic.instrumentation = <<<<"a">>>>
    /\ TargetMusic.instrumentation = <<<<"A">>, <<"b">>>>
    /\ NonEmptyInBoth = {"tempo"} /\ EqualIgnoringCase(NonEmptyInBoth) = {"tempo"}
    /\ musicalSimilarity = <<3, 4>>

SourceStyle == sourceFeatures.lyricalStyle
TargetStyle == targetFeatures.lyricalStyle

\* The pieces of s between its runs of whitespace, the empty piece included
\* where s is empty or starts or ends with whitespace
WordsOf(s) ==
    {SubSeq(s, a, b) : <<a, b>> \in
        {p \in (1..Len(s)) \X (1..Len(s)) :
            /\ p[1] <= p[2]
            /\ \A k \in p[1]..p[2] : ~IsSpace(s[k])
            /\ (p[1] = 1 \/ IsSpace(s[p[1] - 1]))
            /\ (p[2] = Len(s) \/ IsSpace(s[p[2] + 1]))}}
    \cup (IF s = <<>> \/ IsSpace(s[1]) \/ IsSpace(s[Len(s)]) THEN {<<>>} ELSE {})

\* The contributions of the three style units
ComplexityContribution == IF SourceStyle.complexity = TargetStyle.complexity THEN 1 ELSE 0
ToneContribution ==
    LET w1 == WordsOf(ToLowerCase(SourceStyle.emotionalTone))
        w2 == WordsOf(ToLowerCase(TargetStyle.emotionalTone))
    IN  <<Cardinality({w \in w1 \cap w2 : Len(w) > 3}), Max(Cardinality(w1), Cardinality(w2))>>
TopicsContribution ==
    LET A == NormalizedThemes(SourceStyle.commonTopics)
        B == NormalizedThemes(TargetStyle.commonTopics)
    IN  IF A = {} /\ B = {} THEN <<1, 1>>
        ELSE IF A = {} \/ B = {} THEN <<0, 1>>
        ELSE <<Cardinality(A \cap B), Cardinality(A \cup B)>>

\* The style score is the sum of the contributions of the units of `units`
\* divided by their number, 1/2 when there is none
StyleScoreOver(units) ==
    LET c == IF "complexity" \in units THEN <<ComplexityContribution, 1>> ELSE <<0, 1>>
        e == IF "emotionalTone" \in units THEN ToneContribution ELSE <<0, 1>>
        t == IF "commonTopics" \in units THEN TopicsContribution ELSE <<0, 1>>
        n == c[1] * e[2] * t[2] + e[1] * c[2] * t[2] + t[1] * c[2] * e[2]
        d == c[2] * e[2] * t[2] * Cardinality(units)
    IN  IF units = {} THEN lyricalSimilarity = <<1, 2>>
        ELSE lyricalSimilarity[2] > 0 /\ lyricalSimilarity[1] * d = lyricalSimilarity[2] * n

StyleUnits == {"complexity", "emotionalTone", "commonTopics"}
ProvidedByBoth == {f \in StyleUnits : f \in DOMAIN SourceStyle /\ f \in DOMAIN TargetStyle}
NonEmptyOrListInBoth ==
    {f \in ProvidedByBoth :
        /\ f = "complexity" => (SourceStyle[f] # "" /\ TargetStyle[f] # "")
        /\ f = "emotionalTone" => (SourceStyle[f] # <<>> /\ TargetStyle[f] # <<>>)}

\* C12 as claimed: the style score is the sum of the contributions of the
\* units both records provide a field for, divided by their number, and 1/2
\* when there is none: 1 or 0 for complexity, shared long words over the
\* larger word set for emotionalTone, the theme similarity for commonTopics.
C12_UnitsOfProvidedFields ==
    scorePc = "scored" => StyleScoreOver(ProvidedByBoth)

\* C12 amended: the same, where the complexity unit and the emotionalTone
\* unit are evaluated only if both records provide a value that is not the
\* empty string; the word sets are the pieces of the lowercased tone between
\* its runs of whitespace.
C12_UnitsOfNonEmptyFields ==
    scorePc = "scored" => StyleScoreOver(NonEmptyOrListInBoth)

C12_Witness ==
    /\ scorePc = "scored"
    /\ NonEmptyOrListInBoth = {"complexity", "emotionalTone"}
    /\ SourceStyle.complexity = TargetStyle.complexity
    /\ SourceStyle.emotionalTone = <<"a", "a", "a", "a", " ", "b">>
    /\ TargetStyle.emotionalTone = <<"A", "a", "a", "a">>
    /\ lyricalSimilarity = <<3, 4>>

\* The four weights of the overall score, in hundredths
WeightOfEmbedding == 50
WeightOfTheme == 20
WeightOfAttribute == 15
WeightOfStyle == 15

\* C13: the overall score is 0.5 v + 0.2 theme + 0.15 attribute + 0.15 style
\* of the same result; the weights sum to 1, and the overall score is 1 when
\* the four scores are 1.
C13_WeightedSum ==
    scorePc = "scored" =>
        LET v == vectorSimilarity
            t == themeSimilarity
            m == musicalSimilarity
            l == lyricalSimilarity
        IN  /\ overallSimilarity[2] > 0
            /\ overallSimilarity[1] * (100 * v[2] * t[2] * m[2] * l[2])
                 = overallSimilarity[2] * ( WeightOfEmbedding * v[1] * t[2] * m[2] * l[2]
                                          + WeightOfTheme * t[1] * v[2] * m[2] * l[2]
                                          + WeightOfAttribute * m[1] * v[2] * t[2] * l[2]
                                          + WeightOfStyle * l[1] * v[2] * t[2] * m[2])
            /\ WeightOfEmbedding + WeightOfTheme + WeightOfAttribute + WeightOfStyle = 100
            /\ (v = <<1, 1>> /\ t = <<1, 1>> /\ m = <<1, 1>> /\ l = <<1, 1>>) =>
                  overallSimilarity = <<1, 1>>

C13_Witness ==
    /\ scorePc = "scored"
    /\ vectorSimilarity = <<1, 1>> /\ themeSimilarity = <<1, 1>>
    /\ musicalSimilarity = <<1, 1>> /\ lyricalSimilarity = <<1, 1>>
    /\ overallSimilarity = <<1, 1>>

\* x is a fraction of [0, 1]
InUnitInterval(x) == x[2] > 0 /\ 0 <= x[1] /\ x[1] <= x[2]

\* C14: for every pair of records and every embedding similarity of [0, 1],
\* the theme, attribute, style and overall scores are in [0, 1].
C14_ScoresInUnitInterval ==
    (scorePc = "scored" /\ InUnitInterval(vectorSimilarity)) =>
        /\ InUnitInterval(themeSimilarity)
        /\ InUnitInterval(musicalSimilarity)
        /\ InUnitInterval(lyricalSimilarity)
        /\ InUnitInterval(overallSimilarity)

C14_Witness ==
    /\ scorePc = "scored"
    /\ vectorSimilarity = <<0, 1>>
    /\ themeSimilarity = <<1, 1>>
    /\ lyricalSimilarity = <<0, 1>>
    /\ musicalSimilarity = <<1, 1>>
    /\ overallSimilarity = <<7, 20>>

\* compareArtists has computed its lists
ListsComputed == scorePc \in {"scored", "done"}

AbsentFromEither(r1, r2, f) == f \notin DOMAIN r1 \/ f \notin DOMAIN r2

\* No entry of the list starts with, or ends with, the piece
NoneStartsWith(list, piece) == \A k \in DOMAIN list : list[k][1] # piece
NoneEndsWith(list, piece) == \A k \in DOMAIN list : list[k][Len(list[k])] # piece

\* C15 as claimed: a field absent from either record is excluded from every
\* comparison: it adds no unit to the attribute or style score, and no entry
\* of a shared or differences list speaks of it.
C15_AbsentFieldsExcluded ==
    ListsComputed =>
        /\ IF BothExposeInstrumentation /\ SourceInstruments \cup TargetInstruments # {}
           THEN ScalarsPlusUnit(JaccardOf(SourceInstruments, TargetInstruments, <<0, 1>>))
           ELSE ScalarsOnly
        /\ StyleScoreOver(NonEmptyOrListInBoth)
        /\ AbsentFromEither(SourceMusic, TargetMusic, "tempo") =>
              /\ NoneStartsWith(sharedCharacteristics.musical, "Tempo:")
              /\ NoneEndsWith(differences.musical, "tempo")
        /\ AbsentFromEither(SourceMusic, TargetMusic, "energy") =>
              /\ NoneStartsWith(sharedCharacteristics.musical, "Energy:")
              /\ NoneEndsWith(differences.musical, "energy")
        /\ AbsentFromEither(SourceMusic, TargetMusic, "mood") =>
              NoneStartsWith(sharedCharacteristics.musical, "Mood:")
        /\ AbsentFromEither(SourceMusic, TargetMusic, "instrumentation") =>
              NoneStartsWith(sharedCharacteristics.musical, "Instruments:")
        /\ AbsentFromEither(SourceStyle, TargetStyle, "commonTopics") =>
              NoneStartsWith(sharedCharacteristics.lyrical, "Topics:")
        /\ AbsentFromEither(SourceStyle, TargetStyle, "complexity") =>
              /\ NoneEndsWith(sharedCharacteristics.lyrical, "complexity")
              /\ NoneEndsWith(differences.lyrical, "complexity")

\* The positions of the source themes whose normalized form is a target theme
SharedPositions ==
    {k \in DOMAIN sourceFeatures.themes :
        Trim(ToLowerCase(sourceFeatures.themes[k])) \in NormalizedThemes(targetFeatures.themes)}
DifferentPositions == DOMAIN sourceFeatures.themes \ SharedPositions

\* The n-th smallest element of a set of numbers
NthOf(S, n) == CHOOSE x \in S : Cardinality({y \in S : y < x}) = n - 1

\* The list is the source themes at the positions, in order
SourceThemesAt(list, positions) ==
    /\ Len(list) = Cardinality(positions)
    /\ \A n \in DOMAIN list : list[n] = sourceFeatures.themes[NthOf(positions, n)]

\* C16: the shared themes are the source themes whose lowercased, trimmed
\* form occurs among the target themes, in source order and spelling; the
\* different themes are the other source themes; every source theme is in
\* exactly one of the two lists and no theme only the target has is in either.
C16_SharedAndDifferentThemes ==
    ListsComputed =>
        /\ SourceThemesAt(sharedCharacteristics.themes, SharedPositions)
        /\ SourceThemesAt(differences.themes, DifferentPositions)
        /\ Len(sharedCharacteristics.themes) + Len(differences.themes)
              = Len(sourceFeatures.themes)
        /\ \A list \in {sharedCharacteristics.themes, differences.themes} :
              \A n \in DOMAIN list :
                  Trim(ToLowerCase(list[n])) \in NormalizedThemes(sourceFeatures.themes)

C16_Witness ==
    /\ ListsComputed
    /\ sourceFeatures.themes = <<<<"A", " ">>, <<"b">>>>
    /\ targetFeatures.themes = <<<<"c">>, <<" ", "a">>>>
    /\ sharedCharacteristics.themes = <<<<"A", " ">>>>
    /\ differences.themes = <<<<"b">>>>

\* The answer of ai.run is an empty or whitespace-only text
BlankAnswer == ~TryThrows(response) /\ Trim(ExplanationOf(response)) = <<>>

\* C17 as claimed: on a failure of the text generation and on an empty or
\* whitespace-only answer alike, the explanation is the templated text made
\* of the shared lists and the names.
C17_SameFallbackOnFailureAndBlank ==
    (scorePc = "done" /\ (response = Throws \/ BlankAnswer)) =>
        userFriendlyExplanation = TemplatedExplanation(compared, sharedCharacteristics)

\* The text has a piece that is not whitespace
NotBlank(text) == \E k \in DOMAIN text : ~IsSpace(text[k])

\* C18: whatever ai.run answers (an exception, an empty or whitespace-only
\* text, an answer of no recognised shape, a text), the explanation is
\* returned, and it is not empty and not whitespace only.
C18_ExplanationNeverBlank ==
    /\ scorePc = "scored" => ENABLED Explain
    /\ scorePc = "done" => NotBlank(userFriendlyExplanation)

C18_Witness ==
    /\ scorePc = "done"
    /\ response = StringAnswer(<<" ">>)
    /\ compared.sourceArtist = <<>>
    /\ userFriendlyExplanation = GenericExplanation

\* The extraction fails internally: ai.run throws, its answer cannot be
\* read, or the JSON text of the answer is not an object or an array
InternalFailure ==
    \/ extractResponse.kind \in {"throws", "null", "number"}
    \/ /\ extractResponse.kind \in {"string", "response", "choices"}
       /\ \E k \in DOMAIN extractResponse.text :
              /\ extractResponse.text[k] \in {"null", "7"}
              /\ \A u \in DOMAIN extractResponse.text \ {k} :
                     extractResponse.text[u] \in {" ", JsonFence, Fence}

ReturnedRecordIsWhole ==
    /\ {"themes", "musicalCharacteristics", "lyricalStyle"} \subseteq DOMAIN features
    /\ InternalFailure =>
          /\ features.themes = <<>>
          /\ DOMAIN features.musicalCharacteristics = {}
          /\ features.lyricalStyle.complexity = "moderate"
          /\ features.lyricalStyle.emotionalTone = <<"n", "e", "u", "t", "r", "a", "l">>
          /\ features.lyricalStyle.narrativeStyle
                = <<"d", "e", "s", "c", "r", "i", "p", "t", "i", "v", "e">>
          /\ features.lyricalStyle.commonTopics = <<>>
          /\ DOMAIN features.lyricalStyle
                = {"complexity", "emotionalTone", "narrativeStyle", "commonTopics"}

\* C20: extractArtistFeatures lets no error through, whatever ai.run answers
\* (an exception, an empty, unparsable or incomplete answer), and the record
\* it returns has themes, musicalCharacteristics and lyricalStyle; when the
\* extraction fails internally the record is exactly the default one: no
\* themes, no attributes, and the style moderate, neutral, descriptive with
\* no topics.
C20_ExtractionNeverFails ==
    /\ extractPc # "failed"
    /\ extractPc = "done" => ReturnedRecordIsWhole

C20_Witness ==
    /\ extractPc = "done"
    /\ extractResponse = ResponseAnswer(<<JsonFence, " ", "{bare}", " ", Fence>>)
    /\ features = DefaultFeatures

\* The handler has answered with the entries of the callbacks
BatchAnswered == batchPc = "responded" /\ httpResponse.kind = "enhanced"

\* The response has one entry per candidate of the resolver, in its order,
\* with the candidate's artist, genre and rounded score
OneEntryPerCandidate ==
    /\ Len(httpResponse.results) = Len(results)
    /\ \A k \in DOMAIN results :
          /\ httpResponse.results[k].artist = results[k].artist
          /\ httpResponse.results[k].genre = results[k].genre
          /\ httpResponse.results[k].score = RoundToThousandth(results[k].score)

DocumentMissing(k) ==
    ~FindDocument(documents.artists, results[k].artist, results[k].genre).present

\* The extraction of candidate k ended in the catch block of
\* extractArtistFeatures
ExtractionFailed(k) ==
    Has(callbacks[k], "extraction") /\ TryBlock(callbacks[k].extraction).threw

\* The features extractArtistFeatures returned for candidate k
FeaturesOf(k) == extractArtistFeatures(callbacks[k].extraction).val

\* compareArtists threw for candidate k
ComparisonFailed(k) ==
    Has(callbacks[k], "extraction") /\ CompareThrows(batchSourceFeatures, FeaturesOf(k))

\* The explanation of candidate k ended in the catch block of
\* generateUserFriendlyExplanation
ExplanationFailed(k) ==
    Has(callbacks[k], "explanation") /\ TryThrows(callbacks[k].explanation)

\* C19 as stated: in the find-equivalent batch the response has one entry
\* per candidate in resolver order, and a candidate has explanation null
\* exactly when its document is missing or its feature extraction, its
\* comparison or its explanation failed.
C19_NullForEveryFailure ==
    BatchAnswered =>
        /\ OneEntryPerCandidate
        /\ \A k \in DOMAIN results :
              httpResponse.results[k].explanation.present
                  <=> ~(\/ DocumentMissing(k) \/ ExtractionFailed(k)
                        \/ ComparisonFailed(k) \/ ExplanationFailed(k))

\* C19: in the find-equivalent batch the response has one entry per
\* candidate in resolver order. A candidate whose document is missing or
\* whose comparison throws has explanation null and nothing else; every
\* other candidate, also one whose extraction or explanation call failed
\* and was answered with the default record or the fallback text, has the
\* full explanation computed from its own features and answers alone.
C19_NullForMissingOrThrown ==
    BatchAnswered =>
        /\ OneEntryPerCandidate
        /\ \A k \in DOMAIN results :
              LET entry == httpResponse.results[k]
              IN  IF DocumentMissing(k) \/ ComparisonFailed(k)
                  THEN /\ DOMAIN entry = {"artist", "genre", "score", "explanation"}
                       /\ ~entry.explanation.present
                  ELSE /\ entry.explanation.present
                       /\ entry.sourceFeatures = batchSourceFeatures
                       /\ entry.targetFeatures = FeaturesOf(k)
                       /\ entry.explanation.val
                             = ComparisonOf(NamesOf(results[k]), batchSourceFeatures,
                                            FeaturesOf(k), results[k].score,
                                            callbacks[k].explanation)
                       /\ NotBlank(entry.explanation.val.userFriendlyExplanation)

\* A batch of three answered: the comparison of the first candidate threw,
\* the second has no document, the extraction and the explanation of the
\* third both failed
C19_Witness ==
    /\ BatchAnswered
    /\ Len(results) = 3
    /\ ComparisonFailed(1) /\ ~httpResponse.results[1].explanation.present
    /\ DocumentMissing(2) /\ ~httpResponse.results[2].explanation.present
    /\ ExtractionFailed(3) /\ ExplanationFailed(3)
    /\ httpResponse.results[3].explanation.present

\* C21: compareArtists never throws, whatever the two feature records are:
\* a record with a missing themes list, a missing attributes or style
\* object, or topics that are not a list is compared as if the part were
\* empty or absent.
C21_CompareNeverThrows == scorePc # "threw"

\* The two records of the worked example
ExampleCompared ==
    /\ Has(sourceFeatures, "themes") /\ Has(targetFeatures, "themes")
    /\ sourceFeatures.themes = <<<<"love">>, <<"loss">>>>
    /\ targetFeatures.themes = <<<<"loss">>, <<"hope">>>>
    /\ vectorSimilarity = Rat(4, 5)

\* C22: for the source {themes love, loss; energy high; complexity complex;
\* tone "bittersweet longing"; topics breakup} and the target {themes loss,
\* hope; energy high; complexity moderate; tone "hopeful longing"; topics
\* breakup} with embedding similarity 0.8, the theme score is 1/3, the
\* attribute score 1, the style score (0 + 1/2 + 1)/3 = 1/2 and the overall
\* score 0.5*0.8 + 0.2/3 + 0.15 + 0.15*0.5 = 83/120, about 0.6917.
C22_WorkedExample ==
    (ExampleCompared /\ scorePc \in {"scored", "done"}) =>
        /\ themeSimilarity = <<1, 3>>
        /\ musicalSimilarity = <<1, 1>>
        /\ lyricalSimilarity = <<1, 2>>
        /\ overallSimilarity = <<83, 120>>
        /\ 10000 * 83 >= 6916 * 120 /\ 10000 * 83 <= 6917 * 120

C22_Witness ==
    /\ ExampleCompared
    /\ scorePc = "scored"
    /\ sourceFeatures.lyricalStyle.complexity = "complex"
    /\ targetFeatures.lyricalStyle.complexity = "moderate"
    /\ overallSimilarity # NotScored

\* C24: within one findEquivalentArtists call the queries are issued one at
\* a time, each after the answer of the one before and all after the three
\* fetches succeeded; the first carries the analogy vector unperturbed and
\* each asks for the top 50 with metadata; a call that returns has issued
\* exactly 3; when a query fails no later one is issued and the call fails
\* with no result.
C24_QueriesInSequence ==
    /\ Len(queries) <= 3
    /\ queries # <<>> =>
          /\ artistVector.present /\ avgSourceVector.present /\ avgTargetVector.present
          /\ queries[1].anchor = equivalentVector /\ queries[1].noise = 0
    /\ \A k \in DOMAIN queries :
          /\ queries[k].topK = 50 /\ queries[k].returnMetadata
          /\ queries[k].anchor = equivalentVector
    /\ pc = "query" => Len(queries) = i + 1
    /\ pc = "done" => Len(queries) = 3 /\ i = 3
    /\ pc = "failed" =>
          /\ results = <<>>
          /\ queries # <<>> => Len(queries) = i + 1 /\ i < 3

\* The second query failed: two were issued, one was answered
C24_Witness ==
    /\ pc = "failed" /\ error = <<"query failed">>
    /\ Len(queries) = 2 /\ i = 1
    /\ Len(allMatches) > 0

InList(list, e) == \E k \in DOMAIN list : list[k] = e

StartsWith(s, p) == Len(s) >= Len(p) /\ SubSeq(s, 1, Len(p)) = p

\* The entry "Attribute: value" of an attribute, with the value of the source
SharedEntry(f) ==
    <<CASE f = "tempo" -> "Tempo:" [] f = "energy" -> "Energy:" [] f = "mood" -> "Mood:",
      " ">> \o SourceMusic[f]

\* Some entry of the differences reads "valueA vs valueB", with or without
\* the name of the attribute behind it
DifferenceEntry(f) ==
    LET versus == SourceMusic[f] \o <<" ", "vs", " ">> \o TargetMusic[f]
    IN  InList(differences.musical, versus)
          \/ InList(differences.musical, versus \o <<" ", f>>)

InstrumentsEntry ==
    \E k \in DOMAIN sharedCharacteristics.musical :
        StartsWith(sharedCharacteristics.musical[k], <<"Instruments:">>)

\* An attribute listed as shared is not listed as a difference
NotInBothLists ==
    \A f \in {"tempo", "energy"} :
        ~(/\ Has(SourceMusic, f) /\ Has(TargetMusic, f)
          /\ InList(sharedCharacteristics.musical, SharedEntry(f))
          /\ InList(differences.musical,
                    SourceMusic[f] \o <<" ", "vs", " ">> \o TargetMusic[f] \o <<" ", f>>))

\* The lists of attributes of a comparison. Read to the letter, an
\* attribute is present in both records when both have the field, and two
\* instruments are compared but for the letter case; otherwise an attribute
\* is present when it is a non-empty text in both, and instruments are
\* compared but for the letter case and the surrounding whitespace
AttributeListsOver(toTheLetter) ==
    LET provided(f) == IF toTheLetter THEN Has(SourceMusic, f) /\ Has(TargetMusic, f)
                       ELSE Truthy(SourceMusic, f) /\ Truthy(TargetMusic, f)
        normal(s) == IF toTheLetter THEN ToLowerCase(s) ELSE Trim(ToLowerCase(s))
    IN
    (ListsComputed /\ ~CompareThrows(sourceFeatures, targetFeatures)) =>
        /\ \A f \in {"tempo", "energy", "mood"} :
              (provided(f) /\ ToLowerCase(SourceMusic[f]) = ToLowerCase(TargetMusic[f]))
                  <=> (Has(SourceMusic, f)
                       /\ InList(sharedCharacteristics.musical, SharedEntry(f)))
        /\ \A f \in {"tempo", "energy"} :
              (provided(f) /\ ToLowerCase(SourceMusic[f]) # ToLowerCase(TargetMusic[f]))
                  <=> (Has(SourceMusic, f) /\ Has(TargetMusic, f) /\ DifferenceEntry(f)
                       /\ ~InList(sharedCharacteristics.musical, SharedEntry(f)))
        /\ InstrumentsEntry
              <=> /\ Has(SourceMusic, "instrumentation") /\ Has(TargetMusic, "instrumentation")
                  /\ {normal(SourceMusic.instrumentation[k]) :
                          k \in DOMAIN SourceMusic.instrumentation}
                       \cap {normal(TargetMusic.instrumentation[k]) :
                                k \in DOMAIN TargetMusic.instrumentation} # {}
        /\ NotInBothLists

\* C25 as stated: an attribute among tempo, energy and mood that both
\* records have and that is equal but for the letter case is listed as
\* "Attribute: value" with the value of the source; a tempo or an energy
\* that both have and that differs is listed as "valueA vs valueB"; the
\* shared instruments are listed exactly when both records have an
\* instrumentation and the two lists, compared but for the letter case,
\* intersect; no attribute is in both lists.
C25_ListsOfPresentAttributes ==
    AttributeListsOver(TRUE)

\* C25: the same of an attribute that is a non-empty text in both records,
\* the difference reading "valueA vs valueB tempo" or "... energy", and of
\* instruments compared but for the letter case and the surrounding
\* whitespace.
C25_ListsOfNonEmptyAttributes ==
    AttributeListsOver(FALSE)

\* Two records whose energy differs, whose mood is the same but for the
\* case and whose tempo is empty in one: one shared entry, one difference
C25_Witness ==
    /\ scorePc = "scored"
    /\ ~CompareThrows(sourceFeatures, targetFeatures)
    /\ Has(SourceMusic, "tempo") /\ Has(TargetMusic, "tempo")
    /\ SourceMusic.tempo = <<>> /\ TargetMusic.tempo = <<"a">>
    /\ Has(SourceMusic, "energy") /\ Has(TargetMusic, "energy")
    /\ SourceMusic.energy = <<"a">> /\ TargetMusic.energy = <<"b">>
    /\ sharedCharacteristics.musical = <<<<"Mood:", " ", "A">>>>
    /\ differences.musical = <<<<"a", " ", "vs", " ", "b", " ", "energy">>>>

\* The text holds the part, piece by piece
Contains(text, part) ==
    \E j \in 0..(Len(text) - Len(part)) : SubSeq(text, j + 1, j + Len(part)) = part

\* C26: the explanation made when the text generation fails names the
\* first 3 shared themes at most and the first shared attribute, when there
\* is a shared theme or a shared attribute; only when there is neither is it
\* the generic statement, which names the two artists and the two genres.
C26_FallbackNamesFirstShared ==
    (scorePc = "done" /\ TryThrows(response)) =>
        LET text == userFriendlyExplanation
            sharedThemes == sharedCharacteristics.themes
            sharedMusical == sharedCharacteristics.musical
            generic ==
                "share similar artistic approaches that make them equivalent across the"
        IN  /\ Contains(text, compared.sourceArtist) /\ Contains(text, compared.targetArtist)
            /\ IF sharedThemes = <<>> /\ sharedMusical = <<>>
               THEN /\ InList(text, generic)
                    /\ Contains(text, compared.sourceGenre \o <<" ", "and", " ">>
                                        \o compared.targetGenre)
               ELSE /\ ~InList(text, generic)
                    /\ InList(text, "are equivalent because they")
                    /\ InList(text, "both explore themes like") <=> sharedThemes # <<>>
                    /\ \A k \in DOMAIN sharedThemes :
                          Contains(text, sharedThemes[k]) <=> k <= 3
                    /\ \A k \in DOMAIN sharedMusical :
                          Contains(text, sharedMusical[k]) <=> k = 1

\* The text generation failed for two records that share four themes and
\* two attributes
C26_Witness ==
    /\ scorePc = "done" /\ response = Throws
    /\ Len(sharedCharacteristics.themes) = 4
    /\ Len(sharedCharacteristics.musical) = 2
    /\ ~Contains(userFriendlyExplanation, <<"d">>)

-----------------------------------------------------------------------------
(* Two calls of the core that run concurrently.  Every variable of          *)
(* findEquivalentArtists (vector-utils.ts:74-176) and of compareArtists     *)
(* (part_000:24-107) is a parameter or a const/let of the call; neither     *)
(* file declares a variable of the module.  `requests` holds the locals of  *)
(* each call, and one step of a call runs from one await to the next.       *)

\* What vectorize.getByIds does in one call: throws, answers with nothing,
\* or answers with the stored values
FetchAnswers ==
    {[kind |-> "throws"], [kind |-> "empty"]}
    \cup {[kind |-> "vector", values |-> v] : v \in {<<1>>, <<2, 0>>}}

\* getArtistVector / getAverageGenreVector on that answer
VectorAnswered(a) == IF a.kind = "vector" THEN Some(a.values) ELSE Null

\* What vectorize.query does in one call: rejects, or answers with matches
QueryResults ==
    {[kind |-> "rejects"],
     [kind |-> "matches", matches |-> <<Match("v1", 2)>>],
     [kind |-> "matches", matches |-> <<Match("v3", 1), Match("v2", 1)>>]}

ThrownError(e) == [threw |-> TRUE, error |-> e]

\* The locals of a findEquivalentArtists call at its first await
ResolveStarted(artist, genre, target, k) ==
    [kind |-> "resolve", pc |-> "fetchArtist",
     sourceArtist |-> artist, sourceGenre |-> genre, targetGenre |-> target, topK |-> k,
     artistVector |-> Null, avgSourceVector |-> Null, avgTargetVector |-> Null,
     equivalentVector |-> <<>>, i |-> 0, queries |-> <<>>, allMatches |-> <<>>,
     outcome |-> <<>>, heard |-> <<>>]

\* The locals of a compareArtists call at its await of ai.run, or after it
\* has thrown before reaching it
CompareStarted(names, features1, features2, similarity) ==
    [kind |-> "compare",
     pc |-> IF CompareThrows(features1, features2) THEN "failed" ELSE "explain",
     names |-> names, sourceFeatures |-> features1, targetFeatures |-> features2,
     vectorSimilarity |-> similarity,
     outcome |-> IF CompareThrows(features1, features2) THEN Thrown ELSE <<>>,
     heard |-> <<>>]

\* An array of matches that every call of the module pushes to
allMatchesOfModule(reqs, r) ==
    (IF reqs[1].kind = "resolve" THEN reqs[1].allMatches ELSE <<>>)
    \o (IF Len(reqs) > 1
        THEN IF reqs[2].kind = "resolve" THEN reqs[2].allMatches ELSE <<>>
        ELSE <<>>)

\* vector-utils.ts:96: const allMatches = [], an array of the call
allMatchesOf(reqs, r) == reqs[r].allMatches

\* vector-utils.ts:81-176 from one await to the next, on the answer `a` of
\* the port call that was awaited
ResolveStep(reqs, r, a) ==
    LET l == [reqs[r] EXCEPT !.heard = Append(@, a)]
        fail(e) == [l EXCEPT !.pc = "failed", !.outcome = ThrownError(e)]
        v == VectorAnswered(a)
    IN  CASE l.pc = "fetchArtist" ->
               IF ~v.present THEN fail(ArtistNotFound(l.sourceArtist, l.sourceGenre))
               ELSE [l EXCEPT !.artistVector = v, !.pc = "fetchSource"]
          [] l.pc = "fetchSource" ->
               IF ~v.present THEN fail(SourceCentroidNotFound(l.sourceGenre))
               ELSE [l EXCEPT !.avgSourceVector = v, !.pc = "fetchTarget"]
          [] l.pc = "fetchTarget" ->
               IF ~v.present THEN fail(TargetCentroidNotFound(l.targetGenre))
               ELSE IF ~DimsAgree(l.artistVector.val, l.avgSourceVector.val, v.val)
               THEN [fail(DimensionMismatch) EXCEPT !.avgTargetVector = v]
               ELSE LET eq == vectorArithmetic(l.artistVector.val, l.avgSourceVector.val,
                                               v.val)
                    IN  [l EXCEPT !.avgTargetVector = v, !.equivalentVector = eq,
                                  !.queries = <<QueryOf(eq, 0)>>, !.pc = "query"]
          [] l.pc = "query" ->
               IF a.kind = "rejects" THEN fail(<<"query failed">>)
               ELSE LET all == allMatchesOf(reqs, r) \o a.matches
                    IN  IF l.i + 1 < NumQueries
                        THEN [l EXCEPT !.allMatches = all, !.i = @ + 1,
                                       !.queries = Append(@, QueryOf(l.equivalentVector,
                                                                     l.i + 1))]
                        ELSE [l EXCEPT !.allMatches = all, !.i = @ + 1, !.pc = "done",
                                       !.outcome =
                                           Returned(Collect(SortByScore(Dedup(all)),
                                                            l.targetGenre, l.topK, <<>>))]

\* part_000:72-106 after ai.run has answered or thrown
CompareStep(reqs, r, a) ==
    LET l == reqs[r]
    IN  [l EXCEPT !.heard = Append(@, a), !.pc = "done",
                  !.outcome = Returned(ComparisonOf(l.names, l.sourceFeatures,
                                                    l.targetFeatures, l.vectorSimilarity,
                                                    a))]

\* The answers the port call a request awaits can have
AnswersAt(l) ==
    IF l.pc \in {"fetchArtist", "fetchSource", "fetchTarget"} THEN FetchAnswers
    ELSE IF l.pc = "query" THEN QueryResults
    ELSE IF l.pc = "explain" THEN {Throws, NullAnswer, ResponseAnswer(<<"x">>)}
    ELSE {}

\* The event loop resumes a findEquivalentArtists call whose port call has
\* settled
ResolveResumes ==
    \E r \in DOMAIN requests :
        /\ requests[r].kind = "resolve"
        /\ \E a \in AnswersAt(requests[r]) :
              requests' = [requests EXCEPT ![r] = ResolveStep(requests, r, a)]

\* The event loop resumes a compareArtists call whose ai.run has settled
CompareResumes ==
    \E r \in DOMAIN requests :
        /\ requests[r].kind = "compare"
        /\ \E a \in AnswersAt(requests[r]) :
              requests' = [requests EXCEPT ![r] = CompareStep(requests, r, a)]

CoreIdle == ResolverIdle /\ ScorerIdle /\ ExtractorIdle /\ BatchIdle

\* Two requests start together: two resolutions, a resolution and a
\* comparison, or two comparisons
PairInit ==
    /\ LET resolve1 == ResolveStarted(<<"A">>, <<"p">>, <<"r">>, 2)
           resolve2 == ResolveStarted(<<"B">>, <<"r">>, <<"p">>, 1)
           features1 == [themes |-> <<<<"a">>, <<"b">>>>,
                         musicalCharacteristics |-> [tempo |-> <<"a">>],
                         lyricalStyle |-> DefaultStyle]
           features2 == [themes |-> <<<<"b">>>>,
                         musicalCharacteristics |-> [tempo |-> <<"a">>],
                         lyricalStyle |-> DefaultStyle]
           compare1 == CompareStarted(Names, features1, features2, Rat(4, 5))
           compare2 == CompareStarted(Names, features2, features2, Rat(1, 2))
       IN  requests \in {<<resolve1, resolve2>>, <<resolve1, compare1>>,
                         <<compare2, resolve2>>, <<compare1, compare2>>}
    /\ CoreIdle /\ GateIdle /\ ClientIdle /\ ToolsIdle /\ EmbedIdle

PairNext ==
    /\ ResolveResumes \/ CompareResumes
    /\ UNCHANGED <<coreVars, gateVars, clientVars, toolVars, embedVars>>

SpecPair == PairInit /\ [][PairNext]_vars

\* The call `l0` running alone against the port answers of `log`
RECURSIVE RunAlone(_, _)
RunAlone(l0, log) ==
    IF log = <<>> THEN l0
    ELSE RunAlone(IF l0.kind = "resolve" THEN ResolveStep(<<l0>>, 1, Head(log))
                  ELSE CompareStep(<<l0>>, 1, Head(log)),
                  Tail(log))

\* The locals a request started with
StartOf(l) ==
    IF l.kind = "resolve"
    THEN ResolveStarted(l.sourceArtist, l.sourceGenre, l.targetGenre, l.topK)
    ELSE CompareStarted(l.names, l.sourceFeatures, l.targetFeatures, l.vectorSimilarity)

\* C23: of two requests whose port calls settle in any order, each holds at
\* every await, and returns or throws at its end, what the same call holds
\* and returns when it runs alone and its port calls settle with the answers
\* this request heard: nothing of it depends on what the other request did.
C23_SameAsAlone ==
    \A r \in DOMAIN requests :
        requests[r] = RunAlone(StartOf(requests[r]), requests[r].heard)

\* Two resolutions, each between two of its queries and each holding
\* matches its queries answered with
C23_Witness ==
    /\ Len(requests) = 2
    /\ \A r \in {1, 2} :
          /\ requests[r].kind = "resolve" /\ requests[r].pc = "query"
          /\ requests[r].i >= 1 /\ requests[r].allMatches # <<>>
    /\ requests[1].allMatches # requests[2].allMatches

-----------------------------------------------------------------------------
(* The passcode gate of the worker, lib/utils.ts:174-227.  A URL is the     *)
(* list of the pieces of its text: the pathname, then the search.           *)

Origin == <<"https://host">>

ValidatePath == <<"/api/", "validate-passcode">>

\* request.url
UrlOf(req) == Origin \o req.pathname \o req.search

\* lib/utils.ts:174-197: null lets the request through
checkPasscode(req, expectedPasscode) ==
    IF ~expectedPasscode.present \/ expectedPasscode.val = <<>> THEN Null
    ELSE IF Contains(UrlOf(req), ValidatePath) THEN Null
    ELSE IF req.header.present /\ req.header.val # <<>> /\ req.header.val = expectedPasscode.val
    THEN Null
    ELSE Some([status |-> 401, handler |-> "none"])

\* lib/utils.ts:211-227, the handler of /api/validate-passcode; a body that
\* is not JSON makes request.json() throw
ValidateHandler(req, expectedPasscode) ==
    IF ~req.body.json THEN 400
    ELSE IF ~expectedPasscode.present \/ expectedPasscode.val = <<>> THEN 200
    ELSE IF req.body.passcode.present /\ req.body.passcode.val # <<>>
            /\ req.body.passcode.val = expectedPasscode.val
    THEN 200
    ELSE 401

\* lib/utils.ts:211-832: the handler the pathname and the method select
RouteOf(req) ==
    IF req.pathname = ValidatePath /\ req.method = "POST"
    THEN [status |-> ValidateHandler(req, appPasscode), handler |-> "validate-passcode"]
    ELSE IF req.pathname = <<"/api/", "find-equivalent">> /\ req.method = "POST"
    THEN [status |-> 200, handler |-> "find-equivalent"]
    ELSE IF req.pathname = <<"/api/", "artists">> /\ req.method = "GET"
    THEN [status |-> 200, handler |-> "artists"]
    ELSE IF req.pathname = <<"/", "check-open-ai-key">>
    THEN [status |-> 200, handler |-> "check-open-ai-key"]
    ELSE [status |-> 404, handler |-> "routeAgentRequest"]

\* lib/utils.ts:200-209: the test that sends a request through the gate
Gated(req) == StartsWith(req.pathname, <<"/api/">>) /\ req.pathname # ValidatePath

\* lib/utils.ts:199-832, fetch
Fetch ==
    /\ gateResponse = <<>>
    /\ gateResponse' =
          LET passcodeCheck == IF Gated(request) THEN checkPasscode(request, appPasscode)
                               ELSE Null
          IN  IF passcodeCheck.present THEN passcodeCheck.val ELSE RouteOf(request)
    /\ UNCHANGED <<request, appPasscode>>

\* Requests to every route, with and without a query string, a passcode
\* header and a body, against a worker with and without a passcode
GateInit ==
    /\ appPasscode \in {Null, Some(<<>>), Some(<<"s">>)}
    /\ \E pathname \in {ValidatePath, <<"/api/", "find-equivalent">>, <<"/api/", "artists">>,
                        <<"/api/", "validate-passcode", "/", "x">>,
                        <<"/", "check-open-ai-key">>},
          search \in {<<>>, <<"?", "q=", "x">>, <<"?", "next=", "/api/", "validate-passcode">>},
          method \in {"GET", "POST"},
          header \in {Null, Some(<<>>), Some(<<"s">>), Some(<<"t">>)},
          b \in {[json |-> FALSE], [json |-> TRUE, passcode |-> Null],
                 [json |-> TRUE, passcode |-> Some(<<"s">>)]} :
        request = [pathname |-> pathname, search |-> search, method |-> method,
                   header |-> header, body |-> b]
    /\ gateResponse = <<>>
    /\ CoreIdle /\ PairIdle /\ ClientIdle /\ ToolsIdle /\ EmbedIdle

GateNext == Fetch /\ UNCHANGED <<coreVars, requests, clientVars, toolVars, embedVars>>

SpecGate == GateInit /\ [][GateNext]_vars

\* C27: with a passcode configured, a request whose path is under /api/ and
\* is not /api/validate-passcode, and whose X-Passcode header is not the
\* passcode, is answered 401 and reaches no handler, whatever its query
\* string and its method.
C27_ApiNeedsPasscode ==
    (/\ gateResponse # <<>>
     /\ appPasscode.present /\ appPasscode.val # <<>>
     /\ StartsWith(request.pathname, <<"/api/">>) /\ request.pathname # ValidatePath
     /\ request.header # appPasscode)
        => gateResponse = [status |-> 401, handler |-> "none"]

-----------------------------------------------------------------------------
(* The client's passcode prompt, part_002:6-87                              *)

maxAttempts == 3    \* part_002:35

\* The request validatePasscode sends, part_002:8-14
ValidateRequest(p) ==
    [pathname |-> ValidatePath, search |-> <<>>, method |-> "POST", header |-> Null,
     body |-> [json |-> TRUE, passcode |-> Some(p)]]

\* How the fetch of validatePasscode can settle: it rejects, or the worker
\* answers
ValidationOutcomes(p) ==
    {[rejected |-> TRUE],
     [rejected |-> FALSE, status |-> RouteOf(ValidateRequest(p)).status]}

\* A validation that takes a failed request for a success
validatePasscodeUnlessAnswered(outcome) ==
    IF outcome.rejected THEN TRUE ELSE outcome.status \in 200..299

\* part_002:6-20: response.ok, and false when the fetch rejects
validatePasscode(outcome) ==
    IF outcome.rejected THEN FALSE ELSE outcome.status \in 200..299

\* The worker has answered with a success to the validation of passcode p
Accepted(outcome) == ~outcome.rejected /\ outcome.status \in 200..299

\* part_002:22-24 and :34-38: the stored passcode is read and, when there is
\* one, sent for validation
LoadPage ==
    /\ clientPc = "load"
    /\ IF sessionStorage.present /\ sessionStorage.val # <<>>
       THEN passcode' = sessionStorage.val /\ clientPc' = "validateStored"
       ELSE passcode' = passcode /\ clientPc' = "prompt"
    /\ UNCHANGED <<sessionStorage, attempts, validated, page, appPasscode, request,
                   gateResponse>>

\* part_002:26-32: the validation of the stored passcode settles
StoredAnswered ==
    /\ clientPc = "validateStored"
    /\ \E outcome \in ValidationOutcomes(passcode) :
          /\ validated' = IF Accepted(outcome) THEN validated \cup {passcode} ELSE validated
          /\ IF validatePasscode(outcome)
             THEN clientPc' = "returned" /\ sessionStorage' = sessionStorage
             ELSE clientPc' = "prompt" /\ sessionStorage' = Null
    /\ UNCHANGED <<attempts, passcode, page, appPasscode, request, gateResponse>>

\* part_002:37-41: the prompt is answered with a text, with the empty text
\* or is cancelled
Prompt ==
    /\ clientPc = "prompt"
    /\ \E input \in {Null, Some(<<>>), Some(<<"s">>), Some(<<"t">>)} :
          IF ~input.present \/ input.val = <<>>
          THEN clientPc' = "returnedNull" /\ passcode' = <<>>
          ELSE clientPc' = "validate" /\ passcode' = input.val
    /\ UNCHANGED <<sessionStorage, attempts, validated, page, appPasscode, request,
                   gateResponse>>

\* part_002:43-56: the validation of the entered passcode settles
Answered ==
    /\ clientPc = "validate"
    /\ \E outcome \in ValidationOutcomes(passcode) :
          /\ validated' = IF Accepted(outcome) THEN validated \cup {passcode} ELSE validated
          /\ IF validatePasscode(outcome)
             THEN /\ sessionStorage' = Some(passcode)
                  /\ clientPc' = "returned"
                  /\ attempts' = attempts
             ELSE /\ sessionStorage' = sessionStorage
                  /\ attempts' = attempts + 1
                  /\ clientPc' = IF attempts + 1 < maxAttempts THEN "prompt"
                                 ELSE "returnedNull"
    /\ UNCHANGED <<passcode, page, appPasscode, request, gateResponse>>

\* part_002:64-74
Deny ==
    /\ clientPc = "returnedNull"
    /\ page' = "denied" /\ clientPc' = "denied"
    /\ UNCHANGED <<sessionStorage, attempts, passcode, validated, appPasscode, request,
                   gateResponse>>

\* part_002:76-84
Render ==
    /\ clientPc = "returned"
    /\ page' = "app" /\ clientPc' = "rendered"
    /\ UNCHANGED <<sessionStorage, attempts, passcode, validated, appPasscode, request,
                   gateResponse>>

\* A page is loaded with nothing, with an empty text, with the passcode of
\* the worker or with another text in the session storage, against a worker
\* with or without a passcode
ClientInit ==
    /\ clientPc = "load"
    /\ sessionStorage \in {Null, Some(<<>>), Some(<<"s">>), Some(<<"t">>)}
    /\ attempts = 0 /\ passcode = <<>> /\ validated = {} /\ page = "none"
    /\ appPasscode \in {Null, Some(<<"s">>), Some(<<"t">>)}
    /\ request = <<>> /\ gateResponse = <<>>
    /\ CoreIdle /\ PairIdle /\ ToolsIdle /\ EmbedIdle

ClientNext ==
    /\ LoadPage \/ StoredAnswered \/ Prompt \/ Answered \/ Deny \/ Render
    /\ UNCHANGED <<coreVars, requests, toolVars, embedVars>>

\* initApp goes on once promptForPasscode has returned: nothing is awaited
\* between the return and the lines that write the page
SpecClient ==
    /\ ClientInit /\ [][ClientNext]_vars
    /\ WF_vars(Deny /\ UNCHANGED <<coreVars, requests, toolVars, embedVars>>)

AtMostThreeEntered ==
    /\ attempts <= maxAttempts
    /\ clientPc = "validate" => attempts < maxAttempts

WritesOnlyValidated ==
    (sessionStorage' # sessionStorage /\ sessionStorage'.present) =>
        /\ clientPc = "validate" /\ sessionStorage' = Some(passcode)
        /\ passcode \notin validated /\ passcode \in validated'

RemovesStoredThatFails ==
    (clientPc = "validateStored" /\ clientPc' # "validateStored"
        /\ passcode \notin validated') => sessionStorage' = Null

RenderedOnlyValidated ==
    page = "app" => /\ validated # {}
                    /\ sessionStorage.present /\ sessionStorage.val \in validated

\* C28: in a page load at most 3 entered passcodes are sent for validation;
\* app_passcode is written only with the passcode whose validation the
\* worker has just answered with a success; a stored passcode whose
\* validation fails is removed; the application is on the page only if a
\* passcode was validated in this page load; and once the prompt is
\* cancelled or the attempts are used up, the page comes to show the
\* access-denied text and keeps it.
C28_PasscodeFlow ==
    /\ [](AtMostThreeEntered /\ RenderedOnlyValidated)
    /\ [][WritesOnlyValidated /\ RemovesStoredThatFails]_vars
    /\ [][page = "denied" => page' = "denied"]_vars
    /\ (clientPc = "returnedNull") ~> (page = "denied")

\* Three entered passcodes have failed, nothing is stored and the page
\* shows the access-denied text
C28_Witness ==
    /\ page = "denied" /\ attempts = maxAttempts
    /\ sessionStorage = Null /\ validated = {}
    /\ appPasscode.present

-----------------------------------------------------------------------------
(* processToolCalls, part_001:19-91, with the executions of tools.ts:205-210 *)

MaxParts == 2       \* the parts of the first message
MaxPasses == 2      \* the calls of processToolCalls on one conversation

\* APPROVAL.YES and APPROVAL.NO, imported at part_001:10: two texts that
\* differ
ApprovalYes == <<"APPROVAL.YES">>
ApprovalNo == <<"APPROVAL.NO">>

DeniedText == <<"Error: User denied access to tool execution">>

\* tools.ts:205-210: the names that have an execution
ExecutionNames == {"getWeatherInformation"}

\* tools.ts:206-209
Execute(toolName, input) == <<"The weather in ", input.city, " is sunny">>

\* isStaticToolUIPart: the type of a tool part is tool-<name>
IsToolPart(part) == Len(part.type) = 2 /\ part.type[1] = "tool-"

\* part_001:43-46
ToolNameOf(part) == part.type[2]

\* A test that sends the denied parts to the execution too
ApprovedOrDenied(part) ==
    Has(part, "output") /\ part.output \in {ApprovalYes, ApprovalNo}

\* part_001:53
Approved(part) == Has(part, "output") /\ part.output = ApprovalYes

\* part_001:67
Denied(part) == Has(part, "output") /\ part.output = ApprovalNo

\* part_001:41-71: what the callback does with a part
FateOf(part) ==
    IF ~IsToolPart(part) THEN "same"
    ELSE IF ToolNameOf(part) \notin ExecutionNames \/ part.state # "output-available"
    THEN "same"
    ELSE IF Approved(part) THEN "executed"
    ELSE IF Denied(part) THEN "denied"
    ELSE "same"

\* part_001:51-71, the result
ResultFor(part) ==
    IF FateOf(part) = "executed" THEN Execute(ToolNameOf(part), part.input)
    ELSE DeniedText

\* part_001:40-83: the part the callback returns
ProcessPart(part) ==
    IF FateOf(part) = "same" THEN part
    ELSE [f \in DOMAIN part \cup {"output"} |->
              IF f = "output" THEN ResultFor(part) ELSE part[f]]

\* part_001:35-37 and :86
ProcessMessage(message) ==
    IF ~Has(message, "parts") THEN message
    ELSE [message EXCEPT !.parts = [k \in DOMAIN message.parts |->
                                       ProcessPart(message.parts[k])]]

\* The parts of the messages, in order
RECURSIVE PartsOf(_)
PartsOf(ms) ==
    IF ms = <<>> THEN <<>>
    ELSE (IF Has(Head(ms), "parts") THEN Head(ms).parts ELSE <<>>) \o PartsOf(Tail(ms))

FatedExecuted(part) == FateOf(part) = "executed"

FatedDenied(part) == FateOf(part) = "denied"

\* part_001:73-77
WriteFor(part) ==
    [type |-> "tool-output-available", toolCallId |-> part.toolCallId,
     output |-> ResultFor(part)]

\* part_001:60-63
CallFor(part) ==
    [toolName |-> ToolNameOf(part), input |-> part.input, toolCallId |-> part.toolCallId]

\* part_001:19-91, one call.  The callbacks of the denied parts write to the
\* stream before any callback has awaited; those of the approved parts write
\* after their execution has answered.
ProcessToolCalls ==
    /\ passes < MaxPasses
    /\ messages # <<>>
    /\ LET parts == PartsOf(messages)
           executed == SelectSeq(parts, FatedExecuted)
           denied == SelectSeq(parts, FatedDenied)
       IN  /\ invoked' = invoked \o [k \in DOMAIN executed |-> CallFor(executed[k])]
           /\ dataStream' = dataStream \o [k \in DOMAIN denied |-> WriteFor(denied[k])]
                                       \o [k \in DOMAIN executed |-> WriteFor(executed[k])]
    /\ messages' = [k \in DOMAIN messages |-> ProcessMessage(messages[k])]
    /\ passes' = passes + 1

\* A part of the tool that needs a confirmation, with an output
WeatherPart(id, out) ==
    [type |-> <<"tool-", "getWeatherInformation">>, state |-> "output-available",
     toolCallId |-> id, input |-> [city |-> id], output |-> out]

\* The parts the conversations are made of: approved, denied, already
\* replaced by a result, not yet answered, of a tool without an execution,
\* and a text
SomeParts ==
        {WeatherPart("c1", ApprovalYes), WeatherPart("c2", ApprovalNo),
         WeatherPart("c3", <<"The weather in ", "c3", " is sunny">>),
         [type |-> <<"tool-", "getWeatherInformation">>, state |-> "input-available",
          toolCallId |-> "c4", input |-> [city |-> "c4"]],
         [type |-> <<"tool-", "getLocalTime">>, state |-> "output-available",
          toolCallId |-> "c5", input |-> [city |-> "c5"], output |-> <<"10am">>],
         [type |-> <<"tool-", "getLocalTime">>, state |-> "output-available",
          toolCallId |-> "c6", input |-> [city |-> "c6"], output |-> ApprovalYes],
         [type |-> <<"text">>, text |-> ApprovalYes]}

\* Conversations of one or two messages
ToolsInit ==
    /\ \E first \in SeqsUpTo(SomeParts, MaxParts),
          rest \in {<<>>, <<[role |-> "user"]>>,
                    <<[role |-> "assistant",
                       parts |-> <<WeatherPart("c2", ApprovalNo),
                                   WeatherPart("c1", ApprovalYes)>>]>>} :
          messages = <<[role |-> "assistant", parts |-> first]>> \o rest
    /\ dataStream = <<>> /\ invoked = <<>> /\ passes = 0
    /\ CoreIdle /\ PairIdle /\ GateIdle /\ ClientIdle /\ EmbedIdle

ToolsNext ==
    ProcessToolCalls /\ UNCHANGED <<coreVars, requests, gateVars, clientVars, embedVars>>

SpecTools == ToolsInit /\ [][ToolsNext]_vars

\* A part in state output-available of a tool that has an execution, whose
\* output is the text `out`
AnsweredWith(part, out) ==
    /\ Len(part.type) = 2 /\ part.type[1] = "tool-" /\ part.type[2] \in ExecutionNames
    /\ part.state = "output-available"
    /\ "output" \in DOMAIN part /\ part.output = out

MayRun(part) == AnsweredWith(part, ApprovalYes)

Refused(part) == AnsweredWith(part, ApprovalNo)

\* C29: a call of processToolCalls invokes the execution function exactly
\* for the tool parts in state output-available whose tool has an execution
\* and whose output is the approval value YES, and gives them its result as
\* output; such a part whose output is NO gets the output "Error: User
\* denied access to tool execution" and nothing is invoked for it; every
\* other part is returned as it was and nothing is written to the stream for
\* it; a part that was replaced is neither executed nor refused again, and a
\* later call on the same conversation invokes and writes nothing.
C29_OnlyApprovedRun ==
    [][LET old == PartsOf(messages)
           new == PartsOf(messages')
           calls == SubSeq(invoked', Len(invoked) + 1, Len(invoked'))
           writes == SubSeq(dataStream', Len(dataStream) + 1, Len(dataStream'))
           ran == SelectSeq(old, MayRun)
           refused == SelectSeq(old, Refused)
       IN  /\ Len(new) = Len(old)
           /\ calls = [k \in DOMAIN ran |->
                          [toolName |-> "getWeatherInformation", input |-> ran[k].input,
                           toolCallId |-> ran[k].toolCallId]]
           /\ \A k \in DOMAIN old :
                 /\ MayRun(old[k]) =>
                       new[k] = [old[k] EXCEPT !.output = <<"The weather in ",
                                                            old[k].input.city, " is sunny">>]
                 /\ Refused(old[k]) =>
                       new[k] = [old[k] EXCEPT !.output =
                                    <<"Error: User denied access to tool execution">>]
                 /\ (~MayRun(old[k]) /\ ~Refused(old[k])) => new[k] = old[k]
                 /\ ~MayRun(new[k]) /\ ~Refused(new[k])
           /\ Len(writes) = Len(ran) + Len(refused)
           /\ \A j \in DOMAIN writes :
                 \E k \in DOMAIN old :
                     /\ MayRun(old[k]) \/ Refused(old[k])
                     /\ writes[j] = [type |-> "tool-output-available",
                                     toolCallId |-> old[k].toolCallId,
                                     output |-> new[k].output]
           /\ passes >= 1 => calls = <<>> /\ writes = <<>> /\ messages' = messages]_vars

\* Two calls were made on a conversation with two approved and two denied
\* parts: two executions were invoked and four outputs written
C29_Witness ==
    /\ passes = MaxPasses
    /\ Len(invoked) = 2 /\ Len(dataStream) = 4
    /\ Len(PartsOf(messages)) = 4

-----------------------------------------------------------------------------
(* POST /api/embeddings/generate, lib/utils.ts:231-363, and a client that   *)
(* asks for one batch after another                                         *)

MaxArtists == 6          \* the artists of the document store
EmbeddingLength == 1024  \* lib/utils.ts:283, :338
DefaultBatchSize == 5    \* lib/utils.ts:249

\* An embedding is written as the number of its components that the model
\* answered with, followed by the number of zeros appended to them
ZeroVector == [answered |-> 0, zeros |-> EmbeddingLength]

\* body.startIndex || 0
StartIndexOf(b) == IF Has(b, "startIndex") /\ b.startIndex # 0 THEN b.startIndex ELSE 0

\* body.batchSize || 5
BatchSizeOf(b) ==
    IF Has(b, "batchSize") /\ b.batchSize # 0 THEN b.batchSize ELSE DefaultBatchSize

\* The position Array.prototype.slice takes for an argument
SlicePosition(arr, n) == IF n < 0 THEN Max(Len(arr) + n, 0) ELSE Min(n, Len(arr))

\* arr.slice(start, end)
Slice(arr, start, end) == SubSeq(arr, SlicePosition(arr, start) + 1, SlicePosition(arr, end))

\* lib/utils.ts:278-352: the embedding pushed for one artist.  `answer` is
\* what env.AI.run gives for the text of the artist: it throws or times out,
\* holds no embedding, or holds one of some length
EmbeddingOf(artist) ==
    IF ~artist.hasText THEN ZeroVector
    ELSE IF artist.answer.kind = "throws" THEN ZeroVector
    ELSE IF artist.answer.kind = "none" \/ artist.answer.length = 0 THEN ZeroVector
    ELSE IF artist.answer.length > EmbeddingLength
    THEN [answered |-> EmbeddingLength, zeros |-> 0]
    ELSE [answered |-> artist.answer.length, zeros |-> EmbeddingLength - artist.answer.length]

\* lib/utils.ts:247-363: the body of the response
EmbeddingsResponse(b, artists) ==
    LET startIndex == StartIndexOf(b)
        batchSize == BatchSizeOf(b)
        endIndex == Min(startIndex + batchSize, Len(artists))
        batch == Slice(artists, startIndex, endIndex)
        nextIndex == IF endIndex < Len(artists) THEN Some(endIndex) ELSE Null
    IN  IF batch = <<>>
        THEN [embeddings |-> <<>>, count |-> 0, nextIndex |-> Null, done |-> TRUE,
              artists |-> <<>>]
        ELSE [embeddings |-> [k \in DOMAIN batch |-> EmbeddingOf(batch[k])],
              count |-> Len(batch), nextIndex |-> nextIndex, done |-> ~nextIndex.present,
              artists |-> [k \in DOMAIN batch |-> batch[k].index]]

\* The worker answers the request
Generate ==
    /\ embedRequest # <<>> /\ ~embedRequest.stopped /\ embedResponse = <<>>
    /\ embedResponse' = EmbeddingsResponse(embedRequest.body, allArtists)
    /\ UNCHANGED <<embedRequest, allArtists, processed>>

\* The client takes the embeddings of a response that is not the last and
\* asks for the batch at nextIndex
Follow ==
    /\ embedRequest # <<>> /\ ~embedRequest.stopped /\ embedResponse # <<>>
    /\ ~embedResponse.done
    /\ processed' = processed \o embedResponse.artists
    /\ embedRequest' =
          [embedRequest EXCEPT !.body =
              [f \in DOMAIN embedRequest.body \cup {"startIndex"} |->
                  IF f = "startIndex" THEN embedResponse.nextIndex.val
                  ELSE embedRequest.body[f]]]
    /\ embedResponse' = <<>>
    /\ UNCHANGED allArtists

\* The client takes the embeddings of a response that says done, and stops
Stop ==
    /\ embedRequest # <<>> /\ ~embedRequest.stopped /\ embedResponse # <<>>
    /\ embedResponse.done
    /\ processed' = processed \o embedResponse.artists
    /\ embedRequest' = [embedRequest EXCEPT !.stopped = TRUE]
    /\ UNCHANGED <<embedResponse, allArtists>>

\* The artist at index k of a store: with or without a text, and with the
\* answer the model gives for it
ArtistAt(k, shift) ==
    LET kinds == <<[hasText |-> TRUE, answer |-> [kind |-> "embedding", length |-> 1024]],
                   [hasText |-> FALSE],
                   [hasText |-> TRUE, answer |-> [kind |-> "throws"]],
                   [hasText |-> TRUE, answer |-> [kind |-> "embedding", length |-> 1000]],
                   [hasText |-> TRUE, answer |-> [kind |-> "embedding", length |-> 1030]],
                   [hasText |-> TRUE, answer |-> [kind |-> "none"]],
                   [hasText |-> TRUE, answer |-> [kind |-> "embedding", length |-> 0]]>>
        kind == kinds[((k + shift) % Len(kinds)) + 1]
    IN  [f \in DOMAIN kind \cup {"index"} |-> IF f = "index" THEN k ELSE kind[f]]

\* Requests with every start index and batch size, given or left out,
\* against stores of every size.  `body` is the body of the request in
\* flight, `first` the body of the first request of the client, `stopped`
\* whether the client has stopped.
EmbedInit ==
    /\ \E total \in 0..MaxArtists, shift \in {0, 3} :
          allArtists = [k \in 1..total |-> ArtistAt(k - 1, shift)]
    /\ \E s \in [{"startIndex"} -> {-2, 0, 1, 4, 7}] \cup {<<>>},
          b \in [{"batchSize"} -> {-1, 0, 1, 2, 7}] \cup {<<>>} :
          embedRequest = [body |-> s @@ b, first |-> s @@ b, stopped |-> FALSE]
    /\ embedResponse = <<>> /\ processed = <<>>
    /\ CoreIdle /\ PairIdle /\ GateIdle /\ ClientIdle /\ ToolsIdle

EmbedNext ==
    /\ Generate \/ Follow \/ Stop
    /\ UNCHANGED <<coreVars, requests, gateVars, clientVars, toolVars>>

\* The worker answers every request and the loop of the client goes on
\* until a response says done
SpecEmbed == EmbedInit /\ [][EmbedNext]_vars /\ WF_vars(EmbedNext)

\* The start index and the batch size of the request in flight
AskedStart == StartIndexOf(embedRequest.body)

AskedSize == BatchSizeOf(embedRequest.body)

\* The indices of the batch [startIndex, min(startIndex + batchSize, total))
BatchIndices ==
    {k \in 0..(Len(allArtists) - 1) :
        AskedStart <= k /\ k < Min(AskedStart + AskedSize, Len(allArtists))}

\* The embedding of the artist fails or is missing
EmbeddingFails(artist) ==
    \/ ~artist.hasText
    \/ artist.answer.kind \in {"throws", "none"}

OneEmbeddingPerArtist ==
    LET r == embedResponse
    IN  /\ Len(r.embeddings) = Cardinality(BatchIndices)
        /\ r.count = Len(r.embeddings)
        /\ \A j \in DOMAIN r.embeddings :
              /\ r.embeddings[j].answered + r.embeddings[j].zeros = 1024
              /\ r.artists[j] = AskedStart + j - 1
              /\ r.artists[j] \in BatchIndices
              /\ EmbeddingFails(allArtists[r.artists[j] + 1]) =>
                    r.embeddings[j] = [answered |-> 0, zeros |-> 1024]

DoneAtTheEnd ==
    LET r == embedResponse
    IN  /\ r.done <=> ~r.nextIndex.present
        /\ ~r.nextIndex.present <=>
              Min(AskedStart + AskedSize, Len(allArtists)) >= Len(allArtists)
        /\ r.nextIndex.present =>
              r.nextIndex.val = Min(AskedStart + AskedSize, Len(allArtists))

StartedAtZero == StartIndexOf(embedRequest.first) = 0

EveryIndexOnce ==
    (embedRequest.stopped /\ StartedAtZero) =>
        processed = [k \in 1..Len(allArtists) |-> k - 1]

\* C30: every response of /api/embeddings/generate holds one embedding of
\* length 1024 for each artist of the batch [startIndex, min(startIndex +
\* batchSize, total)), in the order of the batch, a zero vector where the
\* embedding of the artist fails or is missing; done is true exactly when
\* nextIndex is null, which is exactly when the batch reaches the end of the
\* list; and a client that starts at 0 and follows nextIndex stops, having
\* received every index of the list exactly once.
C30_BatchesCoverTheList ==
    /\ [](~embedRequest.stopped /\ embedResponse # <<>> =>
              OneEmbeddingPerArtist /\ DoneAtTheEnd)
    /\ []EveryIndexOnce
    /\ StartedAtZero => <>embedRequest.stopped

====
